---- MODULE Spec2Model ----
(***************************************************************************)
(* Template Store of the weekly-report backend (TemplateService) and the   *)
(* template routes that drive it.                                          *)
(*                                                                         *)
(* A user id is a string, modelled as a tuple of one-character strings so  *)
(* that toLowerCase() and trim() are computed, not assumed.  The Map of    *)
(* the service is a sequence of <<key, value>> entries in insertion order  *)
(* (the iteration order of a JavaScript Map); templates.json is the array  *)
(* of the values last written.  Node runs each route handler to            *)
(* completion, so a handler is one step followed by the step that sends    *)
(* the response.                                                           *)
(***************************************************************************)
EXTENDS Integers, Sequences, FiniteSets, TLC

VARIABLES
    templates,   \* this.templates: sequence of [k |-> key, v |-> template]
    file,        \* content of templates.json: [exists, data]
    uuids,       \* number of ids randomUUID() has handed out
    clock,       \* wall clock in milliseconds, as read by new Date()
    ops,         \* number of saving operations run so far
    last,        \* the call in progress and what it returned
    input,       \* arguments of the call into the reporting functions
    output,      \* what that call returned, or that it threw
    reportTemplates  \* this.templates of the service of the report routes

vars ==
    <<templates, file, uuids, clock, ops, last, input, output,
      reportTemplates>>

\* The template store takes no part in the reporting functions, and the
\* reporting functions take no part in the template store.
storeVars == <<templates, file, uuids, clock, ops, last>>
callVars == <<input, output, reportTemplates>>

\* Number of saving operations explored after start-up.
MaxOps == 1

----------------------------------------------------------------------------
(* Strings *)

\* String.prototype.toLowerCase on one character of the alphabet in use.
LowerChar(c) ==
    LET upper == "ABCDEFGHIJKLMNOPQRSTUVWXYZÉÈÊÀÂÇÔÛÎ"
        lower == "abcdefghijklmnopqrstuvwxyzéèêàâçôûî"
        at == { i \in 1..Len(upper) : SubSeq(upper, i, i) = c }
    IN IF at = {} THEN c
       ELSE SubSeq(lower, CHOOSE i \in at : TRUE, CHOOSE i \in at : TRUE)

toLowerCase(s) == [i \in 1..Len(s) |-> LowerChar(s[i])]

RECURSIVE trimStart(_)
trimStart(s) ==
    IF s = <<>> THEN <<>>
    ELSE IF Head(s) = " " THEN trimStart(Tail(s)) ELSE s

RECURSIVE trimEnd(_)
trimEnd(s) ==
    IF s = <<>> THEN <<>>
    ELSE IF s[Len(s)] = " " THEN trimEnd(SubSeq(s, 1, Len(s) - 1)) ELSE s

trim(s) == trimEnd(trimStart(s))

\* userId?.toLowerCase().trim()
NormalizeUserId(u) == trim(toLowerCase(u))

\* The user ids requests arrive with: two spellings of one account (the
\* second as typed into a form, capitalised and with a trailing blank) and
\* another account.
Users == { <<"a">>, <<"A", " ">>, <<"b">> }

Names == {"Default", "Report"}

\* DEFAULT_TEMPLATE.fieldMapping and a mapping edited by a user.  The
\* description and issueSelection of a template travel with fieldMapping.
BuiltinMapping == "builtin"
CustomMapping == "custom"

----------------------------------------------------------------------------
(* The Map of templates, in insertion order *)

Entry(k, v) == [k |-> k, v |-> v]

MapKeys(m) == { m[i].k : i \in 1..Len(m) }

\* Map.prototype.has
MapHas(m, k) == \E i \in 1..Len(m) : m[i].k = k

\* Map.prototype.get; the empty sequence stands for undefined.
MapGet(m, k) ==
    IF MapHas(m, k)
    THEN << m[CHOOSE i \in 1..Len(m) : m[i].k = k].v >>
    ELSE <<>>

\* Map.prototype.set: an existing key keeps its position, a new key is
\* appended.
MapSet(m, k, v) ==
    IF MapHas(m, k)
    THEN [i \in 1..Len(m) |-> IF m[i].k = k THEN Entry(k, v) ELSE m[i]]
    ELSE Append(m, Entry(k, v))

\* Map.prototype.delete
MapDelete(m, k) == SelectSeq(m, LAMBDA e : e.k # k)

\* Array.from(this.templates.values())
MapValues(m) == [i \in 1..Len(m) |-> m[i].v]

\* new Map(templatesArray.map(template => [template.id, template]))
RECURSIVE MapFromArray(_, _)
MapFromArray(arr, m) ==
    IF arr = <<>> THEN m
    ELSE MapFromArray(Tail(arr), MapSet(m, Head(arr).id, Head(arr)))

----------------------------------------------------------------------------
(* Templates *)

Template(id, name, userId, isShared, fieldMapping, createdAt, updatedAt) ==
    [id |-> id, name |-> name, userId |-> userId, isShared |-> isShared,
     fieldMapping |-> fieldMapping, createdAt |-> createdAt,
     updatedAt |-> updatedAt]

\* A request body of PUT /:templateId: each property is present (a
\* one-element sequence) or absent.
NoUpdates ==
    [id |-> <<>>, name |-> <<>>, userId |-> <<>>, isShared |-> <<>>,
     fieldMapping |-> <<>>]

\* { ...template, ...updates }
Spread(t, u) ==
    [f \in DOMAIN t |->
        IF f \in DOMAIN u /\ u[f] # <<>> THEN u[f][1] ELSE t[f]]

----------------------------------------------------------------------------
(* templates.json *)

NoFile == [exists |-> FALSE, data |-> <<>>]

FileOf(arr) == [exists |-> TRUE, data |-> arr]

\* saveTemplates: the file becomes the array of the Map's values, unless
\* writeFileSync fails, and then it is left as it was and the call throws.
WrittenFile(m, f, writeOk) == IF writeOk THEN FileOf(MapValues(m)) ELSE f

\* loadTemplates when the file exists.
LoadedMap(f) == MapFromArray(f.data, <<>>)

----------------------------------------------------------------------------
(* Queries *)

\* The filter of getTemplatesForUser.
VisibleTo(t, userId, includeShared) ==
    \/ NormalizeUserId(t.userId) = NormalizeUserId(userId)
    \/ (includeShared /\ t.isShared)

\* Insertion into a list kept newest first; Array.prototype.sort is stable,
\* so a template goes after those with the same updatedAt.
RECURSIVE InsertNewestFirst(_, _)
InsertNewestFirst(t, sorted) ==
    IF sorted = <<>> THEN <<t>>
    ELSE IF Head(sorted).updatedAt >= t.updatedAt
         THEN <<Head(sorted)>> \o InsertNewestFirst(t, Tail(sorted))
         ELSE <<t>> \o sorted

RECURSIVE SortNewestFirst(_, _)
SortNewestFirst(arr, sorted) ==
    IF arr = <<>> THEN sorted
    ELSE SortNewestFirst(Tail(arr), InsertNewestFirst(Head(arr), sorted))

\* The list left in the order of the Map.
getTemplatesUnsorted(m, userId, includeShared) ==
    SelectSeq(MapValues(m), LAMBDA t : VisibleTo(t, userId, includeShared))

getTemplatesForUser(m, userId, includeShared) ==
    SortNewestFirst(
        SelectSeq(MapValues(m), LAMBDA t : VisibleTo(t, userId, includeShared)),
        <<>>)

\* The access check with the ids compared as they were typed.
HasAccessAsTyped(t, userId) ==
    ~ (t.userId # userId /\ ~ t.isShared)

\* The access check of getTemplate: owner or shared.
HasAccess(t, userId) ==
    ~ (NormalizeUserId(t.userId) # NormalizeUserId(userId) /\ ~ t.isShared)

\* getTemplate; the empty sequence stands for null.
getTemplate(m, templateId, userId) ==
    LET found == MapGet(m, templateId) IN
    IF found = <<>> THEN <<>>
    ELSE IF ~ HasAccess(found[1], userId) THEN <<>>
    ELSE found

\* The owner check replaced by the read check.
IsOwnerOrShared(t, userId) ==
    NormalizeUserId(t.userId) = NormalizeUserId(userId) \/ t.isShared

\* The owner check of updateTemplate and deleteTemplate.
IsOwner(t, userId) == NormalizeUserId(t.userId) = NormalizeUserId(userId)

\* The lookup with the ids compared as they were typed.
FindDefaultAsTyped(m, userId) ==
    LET hit == SelectSeq(MapValues(m), LAMBDA t :
                   t.name = "Default" /\ t.userId = userId)
    IN IF hit = <<>> THEN <<>> ELSE <<Head(hit)>>

\* The lookup of getDefaultTemplate: the first of the user's own templates,
\* newest first, that is named "Default".
FindDefault(m, userId) ==
    LET own == getTemplatesForUser(m, userId, FALSE)
        hit == SelectSeq(own, LAMBDA t :
                   t.name = "Default"
                   /\ NormalizeUserId(t.userId) = NormalizeUserId(userId))
    IN IF hit = <<>> THEN <<>> ELSE <<Head(hit)>>

----------------------------------------------------------------------------
(* Saving *)

\* saveTemplate up to the write: stamps the template and stores it under
\* its own id.
Stamped(m, t, now) ==
    [t EXCEPT !.createdAt = IF MapHas(m, t.id) THEN t.createdAt ELSE now,
              !.updatedAt = now]

SavedMap(m, t, now) == MapSet(m, t.id, Stamped(m, t, now))

----------------------------------------------------------------------------
(* What the mutating operations build *)

\* getDefaultTemplate's new template, before saveTemplate stamps it.
NewDefaultTemplate(id, userId, now) ==
    Template(id, "Default", userId, FALSE, BuiltinMapping, now, now)

\* createTemplate's template: { ...templateData, id: randomUUID(), ... }
CreatedTemplate(id, name, userId, isShared, fieldMapping, now) ==
    Template(id, name, userId, isShared, fieldMapping, now, now)

\* updateTemplate's template: { ...template, ...updates, updatedAt }
UpdatedTemplate(t, updates, now) ==
    [Spread(t, updates) EXCEPT !.updatedAt = now]

\* The checks of deleteTemplate without the one on the name.
MayDeleteAnyName(t, userId) == IsOwner(t, userId)

\* The checks of deleteTemplate after the lookup: owner, and not "Default".
MayDelete(t, userId) == IsOwner(t, userId) /\ t.name # "Default"

\* The clone that keeps the sharing flag of its source.
ClonedTemplateStillShared(t, id, userId, newName, now) ==
    [t EXCEPT !.id = id, !.name = newName, !.userId = userId,
              !.createdAt = now, !.updatedAt = now]

\* cloneTemplate's template: { ...template, id, name, userId, isShared, ... }
ClonedTemplate(t, id, userId, newName, now) ==
    [t EXCEPT !.id = id, !.name = newName, !.userId = userId,
              !.isShared = FALSE, !.createdAt = now, !.updatedAt = now]

----------------------------------------------------------------------------
(* State *)

\* No call in progress.
Idle ==
    [op |-> "idle", id |-> 0, user |-> <<>>, inc |-> FALSE, name |-> "",
     upd |-> NoUpdates, write |-> "none", status |-> "", ret |-> <<>>]

\* A call, how it ended ("ok", "null", "true", "false" or "throw") and what
\* it returned; write tells whether writeFileSync ran and how it ended.
Call(op, id, user, status, ret) ==
    [Idle EXCEPT !.op = op, !.id = id, !.user = user, !.status = status,
                 !.ret = ret]

WriteOutcome(writeOk) == IF writeOk THEN "ok" ELSE "failed"

\* Data directories found at start-up, each a templates.json written by an
\* earlier run: the Default of one user beside a shared template of
\* another; and two templates of one account, created under two spellings
\* of its id, the older one first.
StoredFiles ==
    { FileOf(<< Template(1, "Default", <<"a">>, FALSE, BuiltinMapping, 0, 0),
                Template(2, "Report", <<"b">>, TRUE, CustomMapping, 0, 0) >>),
      FileOf(<< Template(1, "Report", <<"a">>, FALSE, CustomMapping, 0, 0),
                Template(2, "Report", <<"A", " ">>, TRUE, CustomMapping, 1, 1) >>) }

\* The time of the latest change recorded in a file.
RECURSIVE LatestChange(_)
LatestChange(arr) ==
    IF arr = <<>> THEN 0
    ELSE LET rest == LatestChange(Tail(arr)) IN
         IF Head(arr).updatedAt > rest THEN Head(arr).updatedAt ELSE rest

\* The constructor: the Map is loaded from templates.json when the file
\* exists; otherwise an empty file is written, and a failure of that write
\* is caught and logged by loadTemplates.
Init ==
    /\ \E f \in {NoFile} \cup StoredFiles : \E writeOk \in BOOLEAN :
          /\ templates = IF f.exists THEN LoadedMap(f) ELSE <<>>
          /\ file = IF f.exists THEN f ELSE WrittenFile(<<>>, f, writeOk)
          /\ uuids = Len(f.data)
          /\ clock = LatestChange(f.data)
    /\ ops = 0
    /\ last = Idle
    /\ input = <<>>
    /\ output = <<>>
    /\ reportTemplates = <<>>

\* The ids a request may name: every id handed out so far and one unknown.
RequestIds == 1..(uuids + 1)

\* The request bodies of PUT /:templateId that are tried.
RequestUpdates ==
    { [NoUpdates EXCEPT !.name = <<n>>] : n \in Names }
    \cup { [NoUpdates EXCEPT !.isShared = <<b>>] : b \in BOOLEAN }
    \cup { [NoUpdates EXCEPT !.fieldMapping = <<CustomMapping>>] }
    \cup { [NoUpdates EXCEPT !.id = <<k>>] : k \in MapKeys(templates) }

----------------------------------------------------------------------------
(* Operations *)

\* new Date() inside a saving operation: the clock may have moved on.
Now == {clock, clock + 1}

\* saveTemplate(t) followed by the return, or the throw, of the operation
\* that called it.
Save(call, t, now, writeOk) ==
    /\ ops < MaxOps
    /\ templates' = SavedMap(templates, t, now)
    /\ file' = WrittenFile(templates', file, writeOk)
    /\ clock' = now
    /\ ops' = ops + 1
    /\ last' = IF writeOk
               THEN [call EXCEPT !.write = "ok", !.status = "ok",
                                 !.ret = <<Stamped(templates, t, now)>>]
               ELSE [call EXCEPT !.write = "failed", !.status = "throw"]
    /\ UNCHANGED callVars

\* A call that returns without touching the Map or the file.
Return(call) ==
    /\ last' = call
    /\ UNCHANGED <<templates, file, uuids, clock, ops, callVars>>

GetTemplatesForUser(userId, includeShared) ==
    /\ last = Idle
    /\ Return([Call("getTemplatesForUser", 0, userId, "ok",
                    getTemplatesForUser(templates, userId, includeShared))
               EXCEPT !.inc = includeShared])

GetTemplate(templateId, userId) ==
    /\ last = Idle
    /\ LET t == getTemplate(templates, templateId, userId) IN
       Return(Call("getTemplate", templateId, userId,
                   IF t = <<>> THEN "null" ELSE "ok", t))

GetDefaultTemplate(userId) ==
    /\ last = Idle
    /\ LET found == FindDefault(templates, userId) IN
       IF found # <<>>
       THEN Return(Call("getDefaultTemplate", 0, userId, "ok", found))
       ELSE \E now \in Now, writeOk \in BOOLEAN :
            /\ Save(Call("getDefaultTemplate", 0, userId, "", <<>>),
                    NewDefaultTemplate(uuids + 1, userId, now), now, writeOk)
            /\ uuids' = uuids + 1

CreateTemplate(userId, name, isShared) ==
    /\ last = Idle
    /\ \E now \in Now, writeOk \in BOOLEAN :
       /\ Save([Call("createTemplate", 0, userId, "", <<>>)
                 EXCEPT !.name = name],
               CreatedTemplate(uuids + 1, name, userId, isShared,
                               CustomMapping, now),
               now, writeOk)
       /\ uuids' = uuids + 1

UpdateTemplate(templateId, userId, updates) ==
    /\ last = Idle
    /\ LET found == MapGet(templates, templateId)
           call == [Call("updateTemplate", templateId, userId, "null", <<>>)
                    EXCEPT !.upd = updates]
       IN
       IF found = <<>> \/ ~ IsOwner(found[1], userId)
       THEN Return(call)
       ELSE \E now \in Now, writeOk \in BOOLEAN :
            /\ Save(call,
                    UpdatedTemplate(found[1], updates, now), now, writeOk)
            /\ uuids' = uuids

DeleteTemplate(templateId, userId) ==
    /\ last = Idle
    /\ LET found == MapGet(templates, templateId) IN
       IF found = <<>> \/ ~ MayDelete(found[1], userId)
       THEN Return(Call("deleteTemplate", templateId, userId, "false", <<>>))
       ELSE \E writeOk \in BOOLEAN :
            /\ ops < MaxOps
            /\ templates' = MapDelete(templates, templateId)
            /\ file' = WrittenFile(templates', file, writeOk)
            /\ ops' = ops + 1
            /\ last' = [Call("deleteTemplate", templateId, userId,
                             IF writeOk THEN "true" ELSE "throw", <<>>)
                        EXCEPT !.write = WriteOutcome(writeOk)]
            /\ UNCHANGED <<uuids, clock, callVars>>

CloneTemplate(templateId, userId, newName) ==
    /\ last = Idle
    /\ LET found == getTemplate(templates, templateId, userId)
           call == [Call("cloneTemplate", templateId, userId, "null", <<>>)
                    EXCEPT !.name = newName]
       IN
       IF found = <<>>
       THEN Return(call)
       ELSE \E now \in Now, writeOk \in BOOLEAN :
            /\ Save(call,
                    ClonedTemplate(found[1], uuids + 1, userId, newName, now),
                    now, writeOk)
            /\ uuids' = uuids + 1

\* The server is started again: new TemplateService() over the data
\* directory as the previous process left it.
Construct ==
    /\ last = Idle
    /\ IF file.exists
       THEN /\ templates' = LoadedMap(file)
            /\ file' = file
            /\ last' = Call("construct", 0, <<>>, "ok", <<>>)
       ELSE \E writeOk \in BOOLEAN :
            /\ templates' = <<>>
            /\ file' = WrittenFile(templates', file, writeOk)
            /\ last' = [Call("construct", 0, <<>>, "ok", <<>>)
                        EXCEPT !.write = WriteOutcome(writeOk)]
    /\ UNCHANGED <<uuids, clock, ops, callVars>>

\* The route handler sends its response (res.json, res.status(..)) and ends.
Respond ==
    /\ last # Idle
    /\ last' = Idle
    /\ UNCHANGED <<templates, file, uuids, clock, ops, callVars>>

Next ==
    \/ \E u \in Users, inc \in BOOLEAN : GetTemplatesForUser(u, inc)
    \/ \E id \in RequestIds, u \in Users : GetTemplate(id, u)
    \/ \E u \in Users : GetDefaultTemplate(u)
    \/ \E u \in Users, n \in Names, sh \in BOOLEAN : CreateTemplate(u, n, sh)
    \/ \E id \in RequestIds, u \in Users, upd \in RequestUpdates :
          UpdateTemplate(id, u, upd)
    \/ \E id \in RequestIds, u \in Users : DeleteTemplate(id, u)
    \/ \E id \in RequestIds, u \in Users, n \in Names : CloneTemplate(id, u, n)
    \/ Construct
    \/ Respond

Spec == Init /\ [][Next]_vars

----------------------------------------------------------------------------
(* JavaScript values *)

\* A value of the reporting code: a JSON value of a Jira issue or what a
\* function made of it.  An object is its own properties in insertion
\* order, held like a Map.
Undefined == [t |-> "undefined"]
Null == [t |-> "null"]
Bool(b) == [t |-> "boolean", b |-> b]
Num(n) == [t |-> "number", n |-> n]
Str(s) == [t |-> "string", s |-> s]
Arr(a) == [t |-> "array", a |-> a]
Obj(o) == [t |-> "object", o |-> o]

\* v === null || v === undefined
IsNullish(v) == v.t \in {"undefined", "null"}

\* ToBoolean, as applied by !v, v || w and if (v).
Truthy(v) ==
    CASE IsNullish(v) -> FALSE
      [] v.t = "boolean" -> v.b
      [] v.t = "number" -> v.n # 0
      [] v.t = "string" -> v.s # ""
      [] v.t = "NaN" -> FALSE
      [] OTHER -> TRUE

\* v || w
OrElse(v, w) == IF Truthy(v) THEN v ELSE w

Digits == {"0", "1", "2", "3", "4", "5", "6", "7", "8", "9"}

DigitValue(c) ==
    CASE c = "0" -> 0 [] c = "1" -> 1 [] c = "2" -> 2 [] c = "3" -> 3
      [] c = "4" -> 4 [] c = "5" -> 5 [] c = "6" -> 6 [] c = "7" -> 7
      [] c = "8" -> 8 [] c = "9" -> 9

DigitChar(d) == CHOOSE c \in Digits : DigitValue(c) = d

\* parseInt(s, 10) of a string of decimal digits.
RECURSIVE parseInt(_)
parseInt(s) ==
    IF Len(s) = 0 THEN 0
    ELSE 10 * parseInt(SubSeq(s, 1, Len(s) - 1))
         + DigitValue(SubSeq(s, Len(s), Len(s)))

\* Number.prototype.toString of an integer.
RECURSIVE NumberToString(_)
NumberToString(n) ==
    IF n < 0 THEN "-" \o NumberToString(0 - n)
    ELSE IF n < 10 THEN DigitChar(n)
    ELSE NumberToString(n \div 10) \o DigitChar(n % 10)

AllDigits(s) == \A i \in 1..Len(s) : SubSeq(s, i, i) \in Digits

\* An array index as a property name: "0", "1", ... without leading zeros.
IsIndexName(k) ==
    /\ Len(k) > 0
    /\ AllDigits(k)
    /\ (Len(k) > 1 => SubSeq(k, 1, 1) # "0")

\* v[k] for a value v that is neither null nor undefined: an own property
\* of an object, an element or the length of an array, the length of a
\* string; undefined for anything else.
Prop(v, k) ==
    CASE v.t = "object" ->
             IF MapHas(v.o, k) THEN MapGet(v.o, k)[1] ELSE Undefined
      [] v.t = "array" ->
             IF k = "length" THEN Num(Len(v.a))
             ELSE IF IsIndexName(k) /\ parseInt(k) < Len(v.a)
             THEN v.a[parseInt(k) + 1]
             ELSE Undefined
      [] v.t = "string" ->
             IF k = "length" THEN Num(Len(v.s))
             ELSE IF IsIndexName(k) /\ parseInt(k) < Len(v.s)
             THEN Str(SubSeq(v.s, parseInt(k) + 1, parseInt(k) + 1))
             ELSE Undefined
      [] OTHER -> Undefined

\* The exception a dereference of null or undefined raises, carried as a
\* value through the expression it aborts.
Thrown == [t |-> "throw"]

\* v.k and v[k] as the code writes them: a TypeError when v is null
\* or undefined.
Deref(v, k) == IF v = Thrown \/ IsNullish(v) THEN Thrown ELSE Prop(v, k)

\* {...v, [k]: w}
WithProp(v, k, w) == Obj(MapSet(v.o, k, w))

----------------------------------------------------------------------------
(* Field paths: fieldExtractor *)

startsWith(s, prefix) ==
    Len(s) >= Len(prefix) /\ SubSeq(s, 1, Len(prefix)) = prefix

\* String.prototype.split on a separator of one character.
RECURSIVE split(_, _)
split(s, sep) ==
    LET at == { i \in 1..Len(s) : SubSeq(s, i, i) = sep } IN
    IF at = {} THEN <<s>>
    ELSE LET i == CHOOSE j \in at : \A l \in at : j <= l IN
         <<SubSeq(s, 1, i - 1)>> \o split(SubSeq(s, i + 1, Len(s)), sep)

\* The characters \w of a regular expression that field names are made of.
WordChars ==
    Digits \cup
    {"a", "b", "c", "d", "e", "f", "g", "h", "i", "j", "k", "l", "m", "n",
     "o", "p", "q", "r", "s", "t", "u", "v", "w", "x", "y", "z", "_",
     "A", "B", "C", "D", "E", "F", "G", "H", "I", "J", "K", "L", "M", "N",
     "O", "P", "Q", "R", "S", "T", "U", "V", "W", "X", "Y", "Z"}

\* part.match(/^(\w+)\[(\d+)\]$/): <<arrayName, digits>>, or <<>> when the
\* part does not match.
arrayMatch(part) ==
    LET n == Len(part)
        open == { i \in 1..n : SubSeq(part, i, i) = "[" }
    IN
    IF open = {} THEN <<>>
    ELSE LET i == CHOOSE j \in open : \A l \in open : j <= l IN
         IF /\ i > 1
            /\ i + 1 < n
            /\ SubSeq(part, n, n) = "]"
            /\ \A j \in 1..(i - 1) : SubSeq(part, j, j) \in WordChars
            /\ AllDigits(SubSeq(part, i + 1, n - 1))
         THEN <<SubSeq(part, 1, i - 1), SubSeq(part, i + 1, n - 1)>>
         ELSE <<>>

\* The path with "fields." put in front of whatever does not have it.
WalkedPathUnderFields(fieldPath) ==
    IF ~ startsWith(fieldPath, "fields.") THEN "fields." \o fieldPath
    ELSE fieldPath

\* The path that is walked: "fields." is put in front of a path that does
\* not start with "fields.", "key" or "id".
WalkedPath(fieldPath) ==
    IF /\ ~ startsWith(fieldPath, "fields.")
       /\ ~ startsWith(fieldPath, "key")
       /\ ~ startsWith(fieldPath, "id")
    THEN "fields." \o fieldPath
    ELSE fieldPath

\* The loop over the parts of the path, from the value current.
RECURSIVE Walk(_, _)
Walk(current, parts) ==
    IF current = Thrown THEN Thrown
    ELSE IF parts = <<>> THEN (IF IsNullish(current) THEN Null ELSE current)
    ELSE IF IsNullish(current) THEN Null
    ELSE LET part == Head(parts)
             m == arrayMatch(part)
         IN
         IF m # <<>>
         THEN LET target == Deref(current, m[1])
                  index == parseInt(m[2])
              IN
              IF target.t = "array" /\ index < Len(target.a)
                 /\ target.a[index + 1] # Undefined
              THEN Walk(target.a[index + 1], Tail(parts))
              ELSE Null
         ELSE Walk(Deref(current, part), Tail(parts))

extractFieldValue(issue, fieldPath) ==
    IF fieldPath = "" \/ ~ Truthy(issue) THEN Null
    ELSE Walk(issue, split(WalkedPath(fieldPath), "."))

----------------------------------------------------------------------------
(* Display values: fieldExtractor *)

\* An element in quotation marks.
JoinItemQuoted(v) ==
    CASE v.t = "string" -> "\"" \o v.s \o "\""
      [] OTHER -> ""

\* What Array.prototype.join makes of one element.
JoinItem(v) ==
    CASE v.t = "string" -> v.s
      [] v.t = "number" -> NumberToString(v.n)
      [] v.t = "boolean" -> (IF v.b THEN "true" ELSE "false")
      [] v.t = "object" -> "[object Object]"
      [] OTHER -> ""

RECURSIVE join(_, _)
join(items, separator) ==
    IF items = <<>> THEN ""
    ELSE IF Len(items) = 1 THEN JoinItem(items[1])
    ELSE JoinItem(items[1]) \o separator \o join(Tail(items), separator)

\* /^\d{4}-\d{2}-\d{2}/.test(s)
IsoDatePrefix(s) ==
    /\ Len(s) >= 10
    /\ AllDigits(SubSeq(s, 1, 4))
    /\ SubSeq(s, 5, 5) = "-"
    /\ AllDigits(SubSeq(s, 6, 7))
    /\ SubSeq(s, 8, 8) = "-"
    /\ AllDigits(SubSeq(s, 9, 10))

\* A time of day as Jira writes it after the day: "T10:30:00.000+0000".
IsTimeOfDay(s) ==
    /\ Len(s) = 18
    /\ SubSeq(s, 1, 1) = "T" /\ SubSeq(s, 4, 4) = ":"
    /\ SubSeq(s, 7, 7) = ":" /\ SubSeq(s, 10, 10) = "."
    /\ AllDigits(SubSeq(s, 2, 3)) /\ parseInt(SubSeq(s, 2, 3)) < 24
    /\ AllDigits(SubSeq(s, 5, 6)) /\ parseInt(SubSeq(s, 5, 6)) < 60
    /\ AllDigits(SubSeq(s, 8, 9)) /\ parseInt(SubSeq(s, 8, 9)) < 60
    /\ AllDigits(SubSeq(s, 11, 13))
    /\ SubSeq(s, 14, 18) = "+0000"

\* new Date(s) is a date for a string that is a calendar day, alone or
\* with a time of day; of any other string that begins like a day it makes
\* the Invalid Date, which is not an exception.
ParsesAsDate(s) ==
    /\ Len(s) = 10 \/ IsTimeOfDay(SubSeq(s, 11, Len(s)))
    /\ parseInt(SubSeq(s, 6, 7)) \in 1..12
    /\ parseInt(SubSeq(s, 9, 10)) \in 1..31

\* new Date(s).toLocaleDateString() in the en-US locale of a server whose
\* time zone is UTC.
toLocaleDateString(s) ==
    IF ParsesAsDate(s)
    THEN NumberToString(parseInt(SubSeq(s, 6, 7))) \o "/"
         \o NumberToString(parseInt(SubSeq(s, 9, 10))) \o "/"
         \o SubSeq(s, 1, 4)
    ELSE "Invalid Date"

RECURSIVE JSONstringify(_)
JSONstringify(v) ==
    CASE v.t = "string" -> "\"" \o v.s \o "\""
      [] v.t = "number" -> NumberToString(v.n)
      [] v.t = "boolean" -> (IF v.b THEN "true" ELSE "false")
      [] v.t = "array" ->
             "[" \o join([i \in 1..Len(v.a) |->
                             Str(JSONstringify(v.a[i]))], ",") \o "]"
      [] v.t = "object" ->
             "{" \o join([i \in 1..Len(v.o) |->
                             Str("\"" \o v.o[i].k \o "\":"
                                 \o JSONstringify(v.o[i].v))], ",") \o "}"
      [] OTHER -> "null"

\* formatFieldValue(value, {multiValueHandling, separator, fallback}).  The
\* result is a string, except that "all" hands back the array and that a
\* displayName, name, key or summary is handed back as it is.
RECURSIVE formatFieldValue(_, _, _, _)
formatFieldValue(value, multiValueHandling, separator, fallback) ==
    CASE IsNullish(value) -> Str(fallback)
      [] value.t = "array" ->
             IF value.a = <<>> THEN Str(fallback)
             ELSE CASE multiValueHandling = "first" ->
                           formatFieldValue(value.a[1], "join", ", ",
                                            fallback)
                    [] multiValueHandling = "all" -> value
                    [] OTHER ->
                           Str(join(SelectSeq(
                                   [i \in 1..Len(value.a) |->
                                       formatFieldValue(value.a[i], "join",
                                                        ", ", fallback)],
                                   LAMBDA item : item # Str(fallback)),
                               separator))
      [] value.t = "object" ->
             IF Truthy(Prop(value, "displayName"))
             THEN Prop(value, "displayName")
             ELSE IF Truthy(Prop(value, "name")) THEN Prop(value, "name")
             ELSE IF Truthy(Prop(value, "key")) THEN Prop(value, "key")
             ELSE IF Truthy(Prop(value, "summary"))
             THEN Prop(value, "summary")
             ELSE Str(JSONstringify(value))
      [] value.t = "string" ->
             IF IsoDatePrefix(value.s) THEN Str(toLocaleDateString(value.s))
             ELSE value
      [] value.t = "boolean" -> Str(IF value.b THEN "Yes" ELSE "No")
      [] value.t = "number" -> Str(NumberToString(value.n))
      [] OTHER -> Str(fallback)

getFieldDisplayValue(issue, fieldPath, handling, separator, fallback) ==
    formatFieldValue(extractFieldValue(issue, fieldPath), handling,
                     separator, fallback)

----------------------------------------------------------------------------
(* ReportService *)

Chars(s) == [i \in 1..Len(s) |-> SubSeq(s, i, i)]

\* The character as it is, diacritic and all.
StripAccentNot(c) == c

\* normalize('NFD').replace(/[\u0300-\u036f]/g, '') on one lower-case
\* character: the letter without its diacritic.
StripAccent(c) ==
    LET accented == "éèêëàâäçôöûüùîï"
        plain    == "eeeeaaacoouuuii"
        at == { i \in 1..Len(accented) : SubSeq(accented, i, i) = c }
    IN IF at = {} THEN c
       ELSE SubSeq(plain, CHOOSE i \in at : TRUE, CHOOSE i \in at : TRUE)

\* statusName.toLowerCase().normalize('NFD').replace(/[\u0300-\u036f]/g, '')
StatusLower(statusName) ==
    LET lower == toLowerCase(Chars(statusName)) IN
    [i \in 1..Len(lower) |-> StripAccent(lower[i])]

\* String.prototype.includes, on strings held as their characters.
includes(s, word) ==
    \E i \in 1..(Len(s) - Len(word) + 1) :
        SubSeq(s, i, i + Len(word) - 1) = Chars(word)

LAST_WEEK == "Last week"
CURRENT_WEEK == "Current week"
NEXT_WEEK == "Next week"
LATER == "Later"

\* categorizeIssue(statusName); "throw" when statusName is not a string,
\* which has no toLowerCase to call.
categorizeIssue(statusName) ==
    IF statusName.t # "string" THEN "throw"
    ELSE LET statusLower == StatusLower(statusName.s) IN
         IF \/ includes(statusLower, "done")
            \/ includes(statusLower, "closed")
            \/ includes(statusLower, "resolved")
            \/ includes(statusLower, "termine")
            \/ includes(statusLower, "fini")
            \/ includes(statusLower, "complete")
            \/ includes(statusLower, "resolu")
         THEN LAST_WEEK
         ELSE IF \/ includes(statusLower, "in progress")
                 \/ includes(statusLower, "in development")
                 \/ includes(statusLower, "testing")
                 \/ includes(statusLower, "en cours")
                 \/ includes(statusLower, "en developpement")
                 \/ includes(statusLower, "en test")
                 \/ includes(statusLower, "en revue")
                 \/ includes(statusLower, "code review")
                 \/ includes(statusLower, "review")
         THEN CURRENT_WEEK
         ELSE IF \/ includes(statusLower, "to do")
                 \/ includes(statusLower, "open")
                 \/ includes(statusLower, "ready")
                 \/ includes(statusLower, "a faire")
                 \/ includes(statusLower, "a realiser")
                 \/ includes(statusLower, "nouveau")
                 \/ includes(statusLower, "nouvelle")
                 \/ includes(statusLower, "pret")
                 \/ includes(statusLower, "backlog")
         THEN NEXT_WEEK
         ELSE LATER

\* DEFAULT_TEMPLATE.fieldMapping and DEFAULT_TEMPLATE.issueSelection
DefaultFieldMapping ==
    [categoryField |-> "fields.parent.fields.summary",
     initiativeField |-> "fields.labels",
     issueItemField |-> "fields.summary",
     multiValueHandling |-> "join",
     multiValueSeparator |-> ", "]

DefaultIssueSelection ==
    [includeNestedChildren |-> FALSE,
     parentGroupingField |-> "fields.parent.key"]

\* A group for every push, whether the key has one or not.
PushToAnother(grouped, key, issue) ==
    grouped \o << Entry(key, <<issue>>) >>

\* if (!grouped.has(key)) grouped.set(key, []); grouped.get(key).push(issue)
\* A Map holds objects and arrays by identity: a key that is one, parsed
\* from the JSON of its own issue, is no key the Map has.
PushTo(grouped, key, issue) ==
    IF key.t \in {"object", "array"}
    THEN grouped \o << Entry(key, <<issue>>) >>
    ELSE MapSet(grouped, key,
                Append(IF MapHas(grouped, key) THEN MapGet(grouped, key)[1]
                       ELSE <<>>,
                       issue))

\* The pushes of one forEach, each a pair <<key, issue>>, in order.
RECURSIVE PushAll(_, _)
PushAll(grouped, pushes) ==
    IF pushes = <<>> THEN grouped
    ELSE PushAll(PushTo(grouped, pushes[1][1], pushes[1][2]), Tail(pushes))

RECURSIVE Flatten(_)
Flatten(seqs) ==
    IF seqs = <<>> THEN <<>> ELSE Head(seqs) \o Flatten(Tail(seqs))

\* getIssuesWithDepth: the issues as they are, nested children or not.
getIssuesWithDepth(issues, selectionConfig) == issues

\* The groups of the issues taken from the last to the first.
groupIssuesBackwards(issues, parentGroupingField) ==
    PushAll(<<>>,
            [i \in 1..Len(issues) |->
                <<OrElse(extractFieldValue(issues[Len(issues) + 1 - i],
                                           parentGroupingField),
                         Str("UNPARENTED")),
                  issues[Len(issues) + 1 - i]>>])

groupIssuesByParent(issues, parentGroupingField) ==
    PushAll(<<>>,
            [i \in 1..Len(issues) |->
                <<OrElse(extractFieldValue(issues[i], parentGroupingField),
                         Str("UNPARENTED")),
                  issues[i]>>])

\* The one group of the formatted value, whatever the handling.
FieldKeysOfOne(issue, fieldPath, multiValueHandling, separator) ==
    << OrElse(formatFieldValue(extractFieldValue(issue, fieldPath),
                               multiValueHandling, separator, "No value"),
              Str("No value")) >>

\* The groups one issue is pushed to by groupIssuesByField.
FieldKeys(issue, fieldPath, multiValueHandling, separator) ==
    LET fieldValue == extractFieldValue(issue, fieldPath)
        formattedValue == formatFieldValue(fieldValue, multiValueHandling,
                                           separator, "No value")
    IN
    IF multiValueHandling = "all" /\ fieldValue.t = "array"
       /\ Len(fieldValue.a) > 0
    THEN [j \in 1..Len(fieldValue.a) |->
             OrElse(formatFieldValue(fieldValue.a[j], "join", ", ",
                                     "No value"),
                    Str("No value"))]
    ELSE << OrElse(formattedValue, Str("No value")) >>

groupIssuesByField(issues, fieldPath, multiValueHandling, separator) ==
    PushAll(<<>>,
            Flatten([i \in 1..Len(issues) |->
                LET keys == FieldKeys(issues[i], fieldPath,
                                      multiValueHandling, separator)
                IN [j \in 1..Len(keys) |-> <<keys[j], issues[i]>>]]))

\* The category of a parent group, from the parent its last child names.
CategoryOfLastChild(childIssues, fieldMapping) ==
    LET parentIssue == Deref(Deref(childIssues[Len(childIssues)], "fields"),
                             "parent") IN
    IF parentIssue = Thrown THEN Thrown
    ELSE IF Truthy(parentIssue)
    THEN getFieldDisplayValue(
             WithProp(IF parentIssue.t = "object" THEN parentIssue
                      ELSE Obj(<<>>),
                      "fields",
                      OrElse(Prop(parentIssue, "fields"), Obj(<<>>))),
             fieldMapping.categoryField, "join", ", ", "Uncategorized")
    ELSE Str("Uncategorized")

\* The category of a parent group, from the parent its first child names.
CategoryOf(childIssues, fieldMapping) ==
    LET parentIssue == Deref(Deref(childIssues[1], "fields"), "parent") IN
    IF parentIssue = Thrown THEN Thrown
    ELSE IF Truthy(parentIssue)
    THEN getFieldDisplayValue(
             WithProp(IF parentIssue.t = "object" THEN parentIssue
                      ELSE Obj(<<>>),
                      "fields",
                      OrElse(Prop(parentIssue, "fields"), Obj(<<>>))),
             fieldMapping.categoryField, "join", ", ", "Uncategorized")
    ELSE Str("Uncategorized")

\* The section an issue is listed in.
SectionOf(issue) ==
    LET statusName == Deref(Deref(Deref(issue, "fields"), "status"), "name")
    IN IF statusName = Thrown THEN "throw" ELSE categorizeIssue(statusName)

\* The item an issue is listed as; its key when the field gives nothing.
ItemOf(issue, fieldMapping) ==
    LET key == Prop(issue, "key") IN
    getFieldDisplayValue(issue, fieldMapping.issueItemField, "join", ", ",
                         IF key.t = "string" THEN key.s ELSE "-")

\* The items of the issues of one section, the last issue first.
SectionItemsBackwards(groupIssues, section, fieldMapping) ==
    LET members == SelectSeq(groupIssues,
                             LAMBDA issue : SectionOf(issue) = section)
    IN [i \in 1..Len(members) |->
           ItemOf(members[Len(members) + 1 - i], fieldMapping)]

\* The items of the issues of one section, in the order of the issues.
SectionItems(groupIssues, section, fieldMapping) ==
    LET members == SelectSeq(groupIssues,
                             LAMBDA issue : SectionOf(issue) = section)
    IN [i \in 1..Len(members) |-> ItemOf(members[i], fieldMapping)]

\* One ReportRow.
RowOf(category, initiativeValue, groupIssues, fieldMapping) ==
    [category |-> category,
     initiative |-> OrElse(initiativeValue, Str("No initiative")),
     lastWeek |-> SectionItems(groupIssues, LAST_WEEK, fieldMapping),
     currentWeek |-> SectionItems(groupIssues, CURRENT_WEEK, fieldMapping),
     nextWeek |-> SectionItems(groupIssues, NEXT_WEEK, fieldMapping),
     later |-> SectionItems(groupIssues, LATER, fieldMapping)]

\* The rows of one parent group, one for each group of groupIssuesByField.
RowsOfGroup(childIssues, fieldMapping) ==
    LET groupedByInitiative ==
            groupIssuesByField(childIssues, fieldMapping.initiativeField,
                               fieldMapping.multiValueHandling,
                               fieldMapping.multiValueSeparator)
    IN [i \in 1..Len(groupedByInitiative) |->
           RowOf(CategoryOf(childIssues, fieldMapping),
                 groupedByInitiative[i].k, groupedByInitiative[i].v,
                 fieldMapping)]

\* generateReport(issues, template): the rows, or that it threw.  A
\* template is <<>> when none is passed; fieldMapping and issueSelection of
\* a template are <<>> when the template does not have them.
generateReport(issues, template) ==
    LET fieldMapping ==
            IF template = <<>> \/ template[1].fieldMapping = <<>>
            THEN DefaultFieldMapping ELSE template[1].fieldMapping[1]
        issueSelection ==
            IF template = <<>> \/ template[1].issueSelection = <<>>
            THEN DefaultIssueSelection ELSE template[1].issueSelection[1]
        allIssues == getIssuesWithDepth(issues, issueSelection)
        groupedByParent ==
            groupIssuesByParent(allIssues, issueSelection.parentGroupingField)
        threw ==
            \E g \in 1..Len(groupedByParent) :
                \/ CategoryOf(groupedByParent[g].v, fieldMapping) = Thrown
                \/ \E i \in 1..Len(groupedByParent[g].v) :
                       SectionOf(groupedByParent[g].v[i]) = "throw"
    IN
    IF threw THEN [threw |-> TRUE, rows |-> <<>>]
    ELSE [threw |-> FALSE,
          rows |-> Flatten([g \in 1..Len(groupedByParent) |->
                       RowsOfGroup(groupedByParent[g].v, fieldMapping)])]

----------------------------------------------------------------------------
(* Generating a report *)

\* The template store as it is while the reporting functions run.
StoreAtRest ==
    /\ templates = <<>>
    /\ file = NoFile
    /\ uuids = 0
    /\ clock = 0
    /\ ops = 0
    /\ last = Idle
    /\ reportTemplates = <<>>

\* Longest list of child issues a report is generated from.
MaxIssues == 2

\* The parent a child names in fields.parent: two epics of one summary.
Parents ==
    { Obj(<<Entry("key", Str(k)),
            Entry("fields", Obj(<<Entry("summary", Str("Auth"))>>))>>)
      : k \in {"P-1", "P-2"} }

\* The labels of an issue: none, one, two, and one given twice.
LabelLists ==
    { <<>>, <<Str("Alpha")>>, <<Str("Alpha"), Str("Beta")>>,
      <<Str("Alpha"), Str("Alpha")>> }

StatusNames == { "Done", "To Do" }

\* Statuses of the two other sections.
MoreStatusNames == { "In Progress", "Blocked" }

\* A child issue as the Jira search returns it: parent, labels and status
\* are each <<>> when the issue does not have the field.
Issue(key, parent, labels, status) ==
    Obj(<<Entry("key", Str(key)),
          Entry("fields",
                Obj(<<Entry("summary", Str("Fix " \o key))>>
                    \o (IF status = <<>> THEN <<>>
                        ELSE <<Entry("status",
                                     Obj(<<Entry("name",
                                                 Str(status[1]))>>))>>)
                    \o (IF labels = <<>> THEN <<>>
                        ELSE <<Entry("labels", Arr(labels[1]))>>)
                    \o (IF parent = <<>> THEN <<>>
                        ELSE <<Entry("parent", parent[1])>>)))>>)

\* The i-th child of a list: any combination of the optional fields, an
\* issue in progress or blocked, or an issue that came without its fields.
IssuesAt(i) ==
    LET key == "K-" \o NumberToString(i) IN
    { Issue(key, parent, labels, status) :
        parent \in {<<>>} \cup { <<p>> : p \in Parents },
        labels \in {<<>>} \cup { <<l>> : l \in LabelLists },
        status \in {<<>>} \cup { <<n>> : n \in StatusNames } }
    \cup { Issue(key, <<>>, << <<Str("Alpha")>> >>, <<n>>) :
               n \in MoreStatusNames }
    \cup { Obj(<<Entry("key", Str(key))>>) }

RECURSIVE IssueLists(_)
IssueLists(n) ==
    IF n = 0 THEN { <<>> }
    ELSE LET shorter == IssueLists(n - 1) IN
         shorter \cup { Append(l, issue) :
                            l \in { s \in shorter : Len(s) = n - 1 },
                            issue \in IssuesAt(n) }

\* The templates a report is asked with: none, and templates a user wrote,
\* with the shorthand paths, with top-level paths and another grouping
\* field, with paths that are empty or malformed, and with a separator of
\* its own and the labels as the items.
ReportTemplates ==
    { <<>>,
      << [fieldMapping |->
              << [categoryField |-> "summary",
                  initiativeField |-> "labels",
                  issueItemField |-> "summary",
                  multiValueHandling |-> "all",
                  multiValueSeparator |-> ", "] >>,
          issueSelection |-> <<>>] >>,
      << [fieldMapping |->
              << [categoryField |-> "key",
                  initiativeField |-> "fields.labels",
                  issueItemField |-> "key",
                  multiValueHandling |-> "first",
                  multiValueSeparator |-> ", "] >>,
          issueSelection |->
              << [includeNestedChildren |-> TRUE,
                  parentGroupingField |->
                      "fields.parent.fields.summary"] >>] >>,
      << [fieldMapping |->
              << [categoryField |-> "",
                  initiativeField |-> "fields..labels",
                  issueItemField |-> "labels[9]",
                  multiValueHandling |-> "join",
                  multiValueSeparator |-> "/"] >>,
          issueSelection |->
              << [includeNestedChildren |-> FALSE,
                  parentGroupingField |-> ""] >>] >>,
      << [fieldMapping |->
              << [categoryField |-> "fields.summary",
                  initiativeField |-> "fields.labels",
                  issueItemField |-> "fields.labels",
                  multiValueHandling |-> "join",
                  multiValueSeparator |-> " / "] >>,
          issueSelection |-> <<>>] >> }

InitReport ==
    /\ StoreAtRest
    /\ input \in [issues : IssueLists(MaxIssues), template : ReportTemplates]
    /\ output = <<>>

\* const rows = reportService.generateReport(children, template)
GenerateReport ==
    /\ output = <<>>
    /\ output' = << generateReport(input.issues, input.template) >>
    /\ UNCHANGED <<input, reportTemplates, storeVars>>

NextReport == GenerateReport

SpecReport == InitReport /\ [][NextReport]_vars

----------------------------------------------------------------------------
(* TimesheetService *)

\* The numbers that are not integers of seconds or of hundredths: what
\* JSON.parse makes of 1e999, its negative, and the result of
\* Infinity - Infinity.
PosInfinity == [t |-> "Infinity"]
NegInfinity == [t |-> "-Infinity"]
NaN == [t |-> "NaN"]

\* typeof v === 'number'
IsNumber(v) == v.t \in {"number", "Infinity", "-Infinity", "NaN"}

\* v || 0
OrZero(v) == OrElse(v, Num(0))

\* a + b of the running totals: a sum of numbers, a concatenation as soon
\* as one side is a string.
Plus(a, b) ==
    IF a.t = "string" \/ b.t = "string"
    THEN Str((IF a.t = "string" THEN a.s
              ELSE IF a.t = "number" THEN NumberToString(a.n) ELSE a.t)
             \o (IF b.t = "string" THEN b.s
                 ELSE IF b.t = "number" THEN NumberToString(b.n) ELSE b.t))
    ELSE IF a.t = "number" /\ b.t = "number" THEN Num(a.n + b.n)
    ELSE IF NaN \in {a, b} \/ {a, b} = {PosInfinity, NegInfinity} THEN NaN
    ELSE IF PosInfinity \in {a, b} THEN PosInfinity
    ELSE NegInfinity

\* a - b of two numbers.
Minus(a, b) ==
    IF a.t = "number" /\ b.t = "number" THEN Num(a.n - b.n)
    ELSE IF NaN \in {a, b} \/ a = b THEN NaN
    ELSE IF a = PosInfinity \/ b = NegInfinity THEN PosInfinity
    ELSE NegInfinity

\* Number((n / d).toFixed(2)) in hundredths, for integers n and d > 0:
\* the nearest hundredth.  toFixed rounds the double nearest to n / d, which
\* at a quotient half-way between two hundredths lies on either side of it,
\* so that such a quotient goes up or down: tieUp tells which.
ToFixed2(n, d, tieUp) ==
    LET a == IF n < 0 THEN 0 - n ELSE n
        q == (100 * a) \div d
        r == (100 * a) % d
        m == IF 2 * r < d THEN q
             ELSE IF 2 * r > d THEN q + 1
             ELSE IF tieUp THEN q + 1 ELSE q
    IN IF n < 0 THEN 0 - m ELSE m

\* secondsToHours(seconds): hours in hundredths.
secondsToHours(seconds, tieUp) ==
    IF ~ Truthy(seconds) \/ ~ IsNumber(seconds) THEN Num(0)
    ELSE IF seconds.t = "number" THEN Num(ToFixed2(seconds.n, 3600, tieUp))
    ELSE seconds

\* hoursToManDays(hours): man-days in hundredths, from hours in hundredths.
hoursToManDays(hours, tieUp) ==
    IF ~ Truthy(hours) THEN Num(0)
    ELSE IF hours.t = "number" THEN Num(ToFixed2(hours.n, 800, tieUp))
    ELSE hours

\* isNaN(x) ? 0 : x
NaNToZero(x) == IF x = NaN THEN Num(0) ELSE x

\* The difference taken from the wrong side: spent - estimate.
RemainingHoursOverrun(estimateHours, spentHours) ==
    IF estimateHours = NaN \/ spentHours = NaN THEN Num(0)
    ELSE Minus(OrZero(spentHours), OrZero(estimateHours))

\* isNaN(estimate) || isNaN(spent) ? 0 : (estimate || 0) - (spent || 0)
RemainingHours(estimateHours, spentHours) ==
    IF estimateHours = NaN \/ spentHours = NaN THEN Num(0)
    ELSE Minus(OrZero(estimateHours), OrZero(spentHours))

\* The figures of one spent / estimate pair of seconds, in the three units.
\* ties tells the way each of the three quantities goes at a rounding tie.
Figures(spent, estimate, ties) ==
    LET spentHours == secondsToHours(spent, ties.spent)
        estimateHours == secondsToHours(estimate, ties.estimate)
        remainingHours == RemainingHours(estimateHours, spentHours)
    IN [timespent |-> spent,
        timeestimate |-> estimate,
        timespentHours |-> NaNToZero(spentHours),
        timeestimateHours |-> NaNToZero(estimateHours),
        remainingHours |-> NaNToZero(remainingHours),
        timespentManDays |->
            NaNToZero(hoursToManDays(spentHours, ties.spent)),
        timeestimateManDays |->
            NaNToZero(hoursToManDays(estimateHours, ties.estimate)),
        remainingManDays |->
            NaNToZero(hoursToManDays(remainingHours, ties.remaining))]

\* The TimesheetEntry of one child: its key and its figures.
EntryOf(issue, ties) ==
    LET fields == Prop(issue, "fields") IN
    [issueKey |-> Prop(issue, "key"),
     figures |-> Figures(OrZero(Prop(fields, "timespent")),
                         OrZero(Prop(fields, "timeestimate")), ties)]

RECURSIVE Total(_)
Total(seconds) ==
    IF seconds = <<>> THEN Num(0)
    ELSE Plus(Total(SubSeq(seconds, 1, Len(seconds) - 1)),
              seconds[Len(seconds)])

\* generateTimesheet(parentIssue, children): the TimesheetSummary, or that
\* it threw on a child without fields or without fields.status.  The
\* figures of the children together are totalTimeSpent ... remainingManDays
\* of the summary, those of the parent parentTimeSpent ...
\* parentRemainingManDays.
generateTimesheet(parentIssue, children, ties) ==
    LET parentFields == Prop(parentIssue, "fields")
        parentTimeSpent ==
            OrElse(Prop(parentFields, "aggregatetimespent"),
                   OrZero(Prop(parentFields, "timespent")))
        parentTimeEstimate ==
            OrElse(Prop(parentFields, "aggregatetimeestimate"),
                   OrZero(Prop(parentFields, "timeestimate")))
        entries == [i \in 1..Len(children) |-> EntryOf(children[i], ties)]
        threw ==
            \/ IsNullish(parentFields)
            \/ \E i \in 1..Len(children) :
                   Deref(Deref(Deref(children[i], "fields"), "status"),
                         "name") = Thrown
    IN
    IF threw THEN [threw |-> TRUE]
    ELSE [threw |-> FALSE,
          entries |-> entries,
          totals |->
              Figures(Total([i \in 1..Len(entries) |->
                                entries[i].figures.timespent]),
                      Total([i \in 1..Len(entries) |->
                                entries[i].figures.timeestimate]),
                      ties),
          parent |-> Figures(parentTimeSpent, parentTimeEstimate, ties)]

----------------------------------------------------------------------------
(* Generating a timesheet *)

\* Largest time logged on the first child, in steps of 18 seconds: half a
\* hundredth of an hour, so that every odd step is a rounding tie.
MaxTicks == 10

\* fields.timespent and fields.timeestimate of a child as Jira may send
\* them: absent, null, a number of seconds, a number too large for a
\* double, or not a number at all.
TimeValues ==
    {Undefined, Null, PosInfinity, Str("abc")}
    \cup { Num(18 * k) : k \in 0..MaxTicks }

\* The same for the second child, which adds to the totals.
MoreTimeValues == {Undefined, Num(108), PosInfinity}

TimedIssue(key, timed) ==
    Obj(<<Entry("key", Str(key)),
          Entry("fields",
                Obj(<<Entry("summary", Str("Fix " \o key)),
                      Entry("status", Obj(<<Entry("name", Str("Done"))>>))>>
                    \o SelectSeq(timed, LAMBDA e : e.v # Undefined)))>>)

ChildTimes(values) ==
    { <<Entry("timespent", s), Entry("timeestimate", e)>> :
        s \in values, e \in values }

TimedChildren ==
    { <<>> }
    \cup { <<TimedIssue("K-1", c)>> : c \in ChildTimes(TimeValues) }
    \cup { <<TimedIssue("K-1", c), TimedIssue("K-2", d)>> :
             c \in ChildTimes(TimeValues), d \in ChildTimes(MoreTimeValues) }

\* The parent with and without the aggregates Jira computes, which are 0
\* when nothing is logged below the parent.
TimedParents ==
    { TimedIssue("P-1",
                 <<Entry("aggregatetimespent", as), Entry("timespent", s),
                   Entry("aggregatetimeestimate", ae),
                   Entry("timeestimate", e)>>) :
        as \in {Undefined, Num(0), Num(288)}, s \in {Undefined, Num(144)},
        ae \in {Undefined, Num(0), Num(288)}, e \in {Undefined, Num(144)} }

InitTimesheet ==
    /\ StoreAtRest
    /\ input \in [parentIssue : TimedParents, children : TimedChildren]
    /\ output = <<>>

\* const timesheet = timesheetService.generateTimesheet(issue, children)
GenerateTimesheet ==
    /\ output = <<>>
    /\ \E ties \in [spent : BOOLEAN, estimate : BOOLEAN, remaining : BOOLEAN] :
          output' = << generateTimesheet(input.parentIssue, input.children,
                                         ties) >>
    /\ UNCHANGED <<input, reportTemplates, storeVars>>

NextTimesheet == GenerateTimesheet

SpecTimesheet == InitTimesheet /\ [][NextTimesheet]_vars

----------------------------------------------------------------------------
(* Extracting a field *)

\* A path as a template author builds it: segments, each a name with or
\* without an index, written name or name[index] and joined with dots.
Seg(name) == [name |-> name, index |-> <<>>]
At(name, index) == [name |-> name, index |-> <<index>>]

RenderSeg(seg) ==
    IF seg.index = <<>> THEN seg.name
    ELSE seg.name \o "[" \o NumberToString(seg.index[1]) \o "]"

RECURSIVE RenderPath(_)
RenderPath(segs) ==
    IF segs = <<>> THEN ""
    ELSE IF Len(segs) = 1 THEN RenderSeg(segs[1])
    ELSE RenderSeg(segs[1]) \o "." \o RenderPath(Tail(segs))

\* The issues fields are extracted from: a child with every kind of value,
\* a child whose labels is one string and whose parent has no fields, an
\* issue without fields, an issue whose fields is null, and no issue.
ExtractIssues ==
    { Obj(<<Entry("key", Str("K-1")),
            Entry("id", Str("10001")),
            Entry("fields",
                  Obj(<<Entry("summary", Str("Fix login")),
                        Entry("labels", Arr(<<Str("Alpha"), Str("Beta")>>)),
                        Entry("parent",
                              Obj(<<Entry("key", Str("P-1")),
                                    Entry("fields",
                                          Obj(<<Entry("summary",
                                                      Str("Auth"))>>))>>)),
                        Entry("assignee", Null),
                        Entry("points", Num(0)),
                        Entry("flagged", Bool(FALSE)),
                        Entry("text", Str("")),
                        Entry("sprints",
                              Arr(<<Obj(<<Entry("name", Str("S1"))>>),
                                    Null>>))>>))>>),
      Obj(<<Entry("key", Str("K-2")),
            Entry("fields",
                  Obj(<<Entry("labels", Str("Alpha")),
                        Entry("parent",
                              Obj(<<Entry("key", Str("P-2"))>>))>>))>>),
      Obj(<<Entry("key", Str("K-3"))>>),
      Obj(<<Entry("key", Str("K-4")), Entry("fields", Null)>>),
      Null }

\* Largest index a path is written with.
MaxIndex == 2

FieldNames ==
    {"summary", "labels", "parent", "assignee", "points", "flagged", "text",
     "sprints", "missing", "key", "id", "keys", "name", "displayName", ""}

\* The paths tried: a field, a field of a field, an element, a field of an
\* element, each written with and without the leading "fields", the
\* top-level properties, and paths that are empty or malformed.
ExtractPaths ==
    LET tails ==
            { <<Seg(n)>> : n \in FieldNames }
            \cup { <<At(n, i)>> :
                      n \in {"labels", "sprints", "summary", "missing"},
                      i \in 0..MaxIndex }
            \cup { <<Seg(n), Seg(m)>> :
                      n \in {"parent", "assignee", "missing", "summary"},
                      m \in {"key", "fields", "displayName"} }
            \cup { <<Seg("parent"), Seg("fields"), Seg("summary")>>,
                   <<At("sprints", 0), Seg("name")>>,
                   <<At("sprints", 1), Seg("name")>>,
                   <<Seg("labels"), Seg("0")>>,
                   <<Seg("labels[0")>>,
                   <<Seg("[0]")>>,
                   <<Seg("fields")>>,
                   <<At("fields", 0), Seg("summary")>> }
    IN { <<>> } \cup tails \cup { <<Seg("fields")>> \o p : p \in tails }

InitExtract ==
    /\ StoreAtRest
    /\ input \in [issue : ExtractIssues, segments : ExtractPaths]
    /\ output = <<>>

\* const value = extractFieldValue(issue, fieldPath)
ExtractFieldValue ==
    /\ output = <<>>
    /\ output' = << extractFieldValue(input.issue,
                                      RenderPath(input.segments)) >>
    /\ UNCHANGED <<input, reportTemplates, storeVars>>

NextExtract == ExtractFieldValue

SpecExtract == InitExtract /\ [][NextExtract]_vars

----------------------------------------------------------------------------
(* Categorizing a status *)

\* String.prototype.toUpperCase, as a workflow shouts its status names.
toUpperCase(s) ==
    LET lower == "abcdefghijklmnopqrstuvwxyzéèêàâçôûî"
        upper == "ABCDEFGHIJKLMNOPQRSTUVWXYZÉÈÊÀÂÇÔÛÎ"
        Up(c) == LET at == { i \in 1..Len(lower) : SubSeq(lower, i, i) = c }
                 IN IF at = {} THEN c
                    ELSE SubSeq(upper, CHOOSE i \in at : TRUE,
                                CHOOSE i \in at : TRUE)
    IN join([i \in 1..Len(s) |-> Str(Up(SubSeq(s, i, i)))], "")

\* The status names of English and French workflows, as they are spelled
\* in Jira: names of one vocabulary, names that match several vocabularies
\* or hold a word inside another word, and names that match none.
WorkflowStatuses ==
    {"Done", "Closed", "Resolved", "Terminé", "Terminée", "Fini", "Complete",
     "Completed", "Résolu", "In Progress", "In Development", "Testing",
     "En cours", "En développement", "En test", "En revue", "Code Review",
     "In Review", "To Do", "Open", "Ready", "À faire", "À réaliser",
     "Nouveau", "Nouvelle", "Prêt", "Backlog",
     "Ready for review", "Ready for testing", "Reopened", "Review done",
     "Not done", "Unresolved", "Incomplete", "Definition", "Open - en cours",
     "Prêt à tester", "Blocked", "Epic", "On hold", "New", "Todo", ""}

\* Names with accents and the same names as typed without them.
AccentPairs ==
    { <<"Terminé", "Termine">>, <<"Terminée", "Terminee">>,
      <<"Résolu", "Resolu">>, <<"En développement", "En developpement">>,
      <<"À faire", "A faire">>, <<"À réaliser", "A realiser">>,
      <<"Prêt", "Pret">>, <<"Prêt à tester", "Pret a tester">> }

Unaccented == { p[2] : p \in AccentPairs }

StatusInputs ==
    WorkflowStatuses \cup Unaccented
    \cup { toUpperCase(n) : n \in WorkflowStatuses \cup Unaccented }

InitCategorize ==
    /\ StoreAtRest
    /\ input \in [statusName : StatusInputs]
    /\ output = <<>>

\* const section = this.categorizeIssue(issue.fields.status.name)
CategorizeIssue ==
    /\ output = <<>>
    /\ output' = << categorizeIssue(Str(input.statusName)) >>
    /\ UNCHANGED <<input, reportTemplates, storeVars>>

NextCategorize == CategorizeIssue

SpecCategorize == InitCategorize /\ [][NextCategorize]_vars

----------------------------------------------------------------------------
(* Properties *)

\* Two ids of one account: equal once lowercased and trimmed.
SameAccount(a, b) == NormalizeUserId(a) = NormalizeUserId(b)

\* The template stored under the id of the call in progress, in Map m.
Target(m) == MapGet(m, last'.id)

Range(seq) == { seq[i] : i \in 1..Len(seq) }

StoreUnchanged == templates' = templates /\ file' = file

\* C1: getTemplate(id, u) returns null when the stored template is private
\* and owned by another account, and the stored template when it is shared
\* or u is its owner (ids compared ignoring case); a private template of
\* another user is never returned.
C1_GetTemplateAccess ==
    last.op = "getTemplate" =>
        LET stored == MapGet(templates, last.id) IN
        IF stored = <<>> THEN last.ret = <<>>
        ELSE IF stored[1].isShared \/ SameAccount(stored[1].userId, last.user)
             THEN last.ret = stored /\ last.status = "ok"
             ELSE last.ret = <<>> /\ last.status = "null"

\* getTemplate has refused a private template to another account.
C1_Witness ==
    /\ last.op = "getTemplate"
    /\ last.status = "null"
    /\ \E i \in 1..Len(templates) :
          /\ templates[i].k = last.id
          /\ ~ templates[i].v.isShared
          /\ ~ SameAccount(templates[i].v.userId, last.user)

\* C2: updateTemplate and deleteTemplate asked by an account that does not
\* own the template return null and false and leave the Map and the file
\* as they were, also when the template is shared.
C2_NonOwnerCannotWrite ==
    [][ ( /\ last'.op \in {"updateTemplate", "deleteTemplate"}
          /\ Target(templates) # <<>>
          /\ ~ SameAccount(Target(templates)[1].userId, last'.user) )
        => ( /\ StoreUnchanged
             /\ last'.ret = <<>>
             /\ last'.write = "none"
             /\ last'.status =
                  IF last'.op = "updateTemplate" THEN "null" ELSE "false" )
      ]_vars

\* updateTemplate has been refused on a shared template of another account.
C2_Witness ==
    /\ last.op = "updateTemplate"
    /\ last.status = "null"
    /\ \E i \in 1..Len(templates) :
          /\ templates[i].k = last.id
          /\ templates[i].v.isShared
          /\ ~ SameAccount(templates[i].v.userId, last.user)

\* C3: deleteTemplate returns false and leaves the Map and the file as they
\* were when the stored template is named "Default", its owner asking
\* included.
C3_DefaultNotDeleted ==
    [][ ( /\ last'.op = "deleteTemplate"
          /\ Target(templates) # <<>>
          /\ Target(templates)[1].name = "Default" )
        => ( StoreUnchanged /\ last'.status = "false" /\ last'.write = "none" )
      ]_vars

\* The owner of a "Default" template has asked to delete it and got false.
C3_Witness ==
    /\ last.op = "deleteTemplate"
    /\ last.status = "false"
    /\ \E i \in 1..Len(templates) :
          /\ templates[i].k = last.id
          /\ templates[i].v.name = "Default"
          /\ SameAccount(templates[i].v.userId, last.user)

\* C4: updateTemplate by the owner of a template named "Default", with
\* updates that carry another name, leaves the stored name "Default".
C4_DefaultNotRenamed ==
    [][ ( /\ last'.op = "updateTemplate"
          /\ Target(templates) # <<>>
          /\ Target(templates)[1].name = "Default"
          /\ SameAccount(Target(templates)[1].userId, last'.user)
          /\ last'.upd.name # <<>>
          /\ last'.upd.name # <<"Default">> )
        => ( /\ Target(templates') # <<>>
             /\ Target(templates')[1].name = "Default" )
      ]_vars

\* The templates of Map m named "Default" that the account of u owns.
DefaultsOf(m, u) ==
    { i \in 1..Len(m) :
        m[i].v.name = "Default" /\ SameAccount(m[i].v.userId, u) }

\* C5: every account owns at most one template named "Default", and one
\* once getDefaultTemplate has returned for it.
C5_OneDefaultPerUser ==
    /\ \A u \in Users : Cardinality(DefaultsOf(templates, u)) <= 1
    /\ (last.op = "getDefaultTemplate" /\ last.status = "ok")
          => Cardinality(DefaultsOf(templates, last.user)) = 1

\* C6: getDefaultTemplate(u) creates a template, named "Default", private,
\* owned by u and carrying the built-in mapping, only when the account of u
\* owns no "Default"; otherwise it returns one the account owns and changes
\* nothing; and whatever it returned is what getDefaultTemplate finds again
\* for every spelling of the id, without creating.
C6_DefaultMaterializedOnce ==
    [][ last'.op = "getDefaultTemplate" =>
        /\ IF DefaultsOf(templates, last'.user) # {}
           THEN /\ StoreUnchanged
                /\ last'.status = "ok"
                /\ \E i \in DefaultsOf(templates, last'.user) :
                      last'.ret = <<templates[i].v>>
           ELSE /\ Len(templates') = Len(templates) + 1
                /\ SubSeq(templates', 1, Len(templates)) = templates
                /\ LET new == templates'[Len(templates')] IN
                   /\ new.k = new.v.id
                   /\ new.k \notin MapKeys(templates)
                   /\ new.v.name = "Default"
                   /\ new.v.userId = last'.user
                   /\ ~ new.v.isShared
                   /\ new.v.fieldMapping = BuiltinMapping
                   /\ last'.status = "ok" => last'.ret = <<new.v>>
        /\ last'.status = "ok" =>
              \A u \in Users : SameAccount(u, last'.user) =>
                  FindDefault(templates', u) = last'.ret
      ]_vars

\* getDefaultTemplate has returned, to one spelling of an id, the built-in
\* template materialized in this run for another spelling of it.
C6_Witness ==
    /\ last.op = "getDefaultTemplate"
    /\ last.status = "ok"
    /\ last.write = "none"
    /\ last.ret # <<>>
    /\ last.ret[1].userId # last.user
    /\ last.ret[1].id = uuids
    /\ last.ret[1].id > 2
    /\ last.ret[1].fieldMapping = BuiltinMapping

\* C7: cloneTemplate(id, u, newName) returns null and changes nothing when
\* getTemplate(id, u) grants no access; when u owns the template or it is
\* shared, a clone is added under an id no stored template has, owned by u,
\* private and named newName, the source and every other template staying
\* as they were, and the clone is returned unless the write fails.
C7_Clone ==
    [][ last'.op = "cloneTemplate" =>
        LET src == Target(templates) IN
        IF src # <<>>
           /\ (src[1].isShared \/ SameAccount(src[1].userId, last'.user))
        THEN /\ Len(templates') = Len(templates) + 1
             /\ SubSeq(templates', 1, Len(templates)) = templates
             /\ LET new == templates'[Len(templates')] IN
                /\ new.k = new.v.id
                /\ new.k \notin MapKeys(templates)
                /\ new.v.userId = last'.user
                /\ ~ new.v.isShared
                /\ new.v.name = last'.name
                /\ new.v.fieldMapping = src[1].fieldMapping
                /\ last'.status \in {"ok", "throw"}
                /\ last'.status = "ok" <=> last'.write = "ok"
                /\ last'.status = "ok" => last'.ret = <<new.v>>
        ELSE StoreUnchanged /\ last'.status = "null" /\ last'.ret = <<>>
      ]_vars

\* A shared template has been cloned by an account that does not own it.
C7_Witness ==
    /\ last.op = "cloneTemplate"
    /\ last.status = "ok"
    /\ \E i \in 1..Len(templates) :
          /\ templates[i].k = last.id
          /\ templates[i].v.isShared
          /\ ~ SameAccount(templates[i].v.userId, last.user)
    /\ last.ret[1].userId = last.user
    /\ ~ last.ret[1].isShared

\* Every template is stored under its own id, so ids are pairwise distinct.
StoredUnderOwnId(m) ==
    /\ \A i \in 1..Len(m) : m[i].k = m[i].v.id
    /\ \A i, j \in 1..Len(m) : m[i].k = m[j].k => i = j

\* C8: every template is stored under its own id, ids are pairwise
\* distinct, and updateTemplate(templateId, ..) writes the entry of
\* templateId only, whatever the updates carry.
C8_IdImmutable ==
    [][ /\ StoredUnderOwnId(templates')
        /\ last'.op = "updateTemplate" =>
              /\ MapKeys(templates') = MapKeys(templates)
              /\ \A i \in 1..Len(templates) :
                    templates[i].k # last'.id => templates'[i] = templates[i]
      ]_vars

\* C9: getTemplatesForUser(u, includeShared) returns the templates of the
\* account of u and, with includeShared, the shared ones, each once, the
\* most recently updated first.
C9_TemplatesForUser ==
    last.op = "getTemplatesForUser" =>
        LET r == last.ret
            wanted == { t \in Range(MapValues(templates)) :
                          \/ SameAccount(t.userId, last.user)
                          \/ (last.inc /\ t.isShared) }
        IN /\ Range(r) = wanted
           /\ Len(r) = Cardinality(wanted)
           /\ \A i, j \in 1..Len(r) :
                 i < j => r[i].updatedAt >= r[j].updatedAt

\* The list holds a shared template of another account, and starts with a
\* template updated after the one that follows it.
C9_Witness ==
    /\ last.op = "getTemplatesForUser"
    /\ last.inc
    /\ Len(last.ret) >= 2
    /\ last.ret[1].updatedAt > last.ret[2].updatedAt
    /\ \E i \in 1..Len(last.ret) :
          last.ret[i].isShared /\ ~ SameAccount(last.ret[i].userId, last.user)

\* C10: an operation of the store throws exactly when its write of
\* templates.json fails.
C10_ThrowsIffWriteFails ==
    (last.status = "throw") <=> (last.write = "failed")


----------------------------------------------------------------------------
(* Properties of the report *)

\* generateReport has returned or thrown for the input at hand.
Reported == output # <<>>

\* The field mapping and the issue selection generateReport works with.
MappingOf(template) ==
    IF template = <<>> \/ template[1].fieldMapping = <<>>
    THEN DefaultFieldMapping ELSE template[1].fieldMapping[1]

SelectionOf(template) ==
    IF template = <<>> \/ template[1].issueSelection = <<>>
    THEN DefaultIssueSelection ELSE template[1].issueSelection[1]

\* C11: generateReport never throws, whatever the child issues and the
\* template: issues without fields, without fields.parent or without
\* fields.status are tolerated.
C11_GenerateReportNeverThrows == Reported => ~ output[1].threw


----------------------------------------------------------------------------
(* Properties of the timesheet *)

\* The figures of a timesheet that was returned: of each entry, of the
\* children together and of the parent.
FiguresOf(sheet) ==
    { sheet.entries[i].figures : i \in 1..Len(sheet.entries) }
    \cup { sheet.totals, sheet.parent }

Sheeted == output # <<>> /\ ~ output[1].threw

\* A finite number, neither NaN nor an infinity nor a string.
IsFinite(v) == v.t = "number"

\* C12: every numeric field of the summary and of its entries, in seconds,
\* hours and man-days, is a finite number, whatever the time fields of the
\* parent and of the children hold.
C12_FiguresFinite ==
    Sheeted =>
        \A f \in FiguresOf(output[1]) :
            /\ IsFinite(f.timespent) /\ IsFinite(f.timeestimate)
            /\ IsFinite(f.timespentHours) /\ IsFinite(f.timeestimateHours)
            /\ IsFinite(f.remainingHours)
            /\ IsFinite(f.timespentManDays)
            /\ IsFinite(f.timeestimateManDays)
            /\ IsFinite(f.remainingManDays)

Distance(a, b) == IF a < b THEN b - a ELSE a - b

\* C13: where the seconds are non-negative integers, remainingHours is
\* estimateHours - spentHours, and remainingManDays is within 0.01 of
\* estimateManDays - spentManDays: for every entry, for the children
\* together and for the parent.
C13_RemainingIsEstimateMinusSpent ==
    Sheeted =>
        \A f \in FiguresOf(output[1]) :
            (f.timespent.t = "number" /\ f.timeestimate.t = "number") =>
                /\ f.remainingHours
                     = Num(f.timeestimateHours.n - f.timespentHours.n)
                /\ Distance(f.remainingManDays.n,
                            f.timeestimateManDays.n - f.timespentManDays.n)
                     <= 1

\* An entry of 180 s estimated and 108 s spent: 0.05 h and 0.03 h, 0.01 and
\* 0 man-days, and 0.02 h remaining, which is 0 man-days.
C13_Witness ==
    /\ Sheeted
    /\ \E f \in FiguresOf(output[1]) :
          /\ f.timeestimate = Num(180) /\ f.timespent = Num(108)
          /\ f.remainingHours = Num(2)
          /\ f.timeestimateManDays = Num(1)
          /\ f.timespentManDays = Num(0)
          /\ f.remainingManDays = Num(0)


----------------------------------------------------------------------------
(* Properties of the field extractor *)

\* The segments a written path stands for: "fields" is understood in front
\* of a path that does not start with "fields.", "key" or "id".
MeantSegments(segs) ==
    IF segs = <<>> THEN <<>>
    ELSE IF \/ (Len(segs) > 1 /\ segs[1] = Seg("fields"))
            \/ startsWith(segs[1].name, "key")
            \/ startsWith(segs[1].name, "id")
    THEN segs
    ELSE <<Seg("fields")>> \o segs

\* The value found at a path, from its last segment back: nothing below
\* null or undefined, nothing at an index of what is not an array or is
\* shorter than the index.
RECURSIVE ValueAt(_, _)
ValueAt(issue, segs) ==
    IF segs = <<>> THEN issue
    ELSE LET holder == ValueAt(issue, SubSeq(segs, 1, Len(segs) - 1))
             seg == segs[Len(segs)]
             target == Prop(holder, seg.name)
         IN
         IF IsNullish(holder) THEN Null
         ELSE IF seg.index = <<>> THEN target
         ELSE IF target.t = "array" /\ seg.index[1] < Len(target.a)
         THEN target.a[seg.index[1] + 1]
         ELSE Null

\* C14: extractFieldValue never throws; it returns the value at the path,
\* and null when the path is empty, when a segment on the way is null or
\* undefined, when an indexed segment names what is not an array, when the
\* index is out of bounds or when nothing is found.
C14_ExtractFieldValue ==
    output # <<>> =>
        /\ output[1] # Thrown
        /\ LET found == ValueAt(input.issue, MeantSegments(input.segments))
           IN output[1] = IF input.segments = <<>> \/ IsNullish(found)
                          THEN Null ELSE found

\* The name of the first sprint, by the shorthand path sprints[0].name, and
\* null for labels[2] of two labels.
C14_Witness ==
    \/ /\ input.segments = <<At("sprints", 0), Seg("name")>>
       /\ output = <<Str("S1")>>
    \/ /\ input.segments = <<Seg("fields"), At("labels", 2)>>
       /\ input.issue # Null
       /\ output = <<Null>>


----------------------------------------------------------------------------
(* Properties of the status categorizer *)

\* The vocabularies in the order they are tested, each with its section.
Buckets ==
    << [section |-> LAST_WEEK,
        words |-> {"done", "closed", "resolved", "termine", "fini",
                   "complete", "resolu"}],
       [section |-> CURRENT_WEEK,
        words |-> {"in progress", "in development", "testing", "en cours",
                   "en developpement", "en test", "en revue", "code review",
                   "review"}],
       [section |-> NEXT_WEEK,
        words |-> {"to do", "open", "ready", "a faire", "a realiser",
                   "nouveau", "nouvelle", "pret", "backlog"}] >>

\* The buckets a status name matches.
Matching(statusName) ==
    { b \in 1..Len(Buckets) :
        \E w \in Buckets[b].words : includes(StatusLower(statusName), w) }

\* Spellings that differ from a status name in case or in diacritics only:
\* the name in capitals, and the name typed without its accents.
Spellings(statusName) ==
    {toUpperCase(statusName)}
    \cup { p[2] : p \in { q \in AccentPairs : q[1] = statusName } }
    \cup { toUpperCase(p[2]) :
             p \in { q \in AccentPairs : toUpperCase(q[1]) = statusName } }

\* C15: categorizeIssue returns the section of the first bucket, in the
\* order done, in-progress, to-do, that the name matches, and LATER when it
\* matches none; names that differ in case or diacritics only get the same
\* section.
C15_FirstMatchingBucket ==
    output # <<>> =>
        /\ LET hits == Matching(input.statusName) IN
           output[1] = IF hits = {} THEN LATER
                       ELSE Buckets[CHOOSE b \in hits :
                                        \A c \in hits : b <= c].section
        /\ \A n \in Spellings(input.statusName) :
              categorizeIssue(Str(n)) = output[1]

\* "Ready for review" matches the to-do and the in-progress vocabulary and
\* is in progress; "TERMINÉE" has the accented spelling in capitals.
C15_Witness ==
    \/ /\ input.statusName = "Ready for review"
       /\ Matching(input.statusName) = {2, 3}
       /\ output = <<CURRENT_WEEK>>
    \/ /\ input.statusName = "TERMINÉE"
       /\ "TERMINEE" \in Spellings(input.statusName)
       /\ output = <<LAST_WEEK>>


----------------------------------------------------------------------------
(* Properties of the report rows *)

\* The groups of groupIssuesByParent for the input at hand, and the rows
\* that generateReport made of the g-th of them.
ParentGroups ==
    groupIssuesByParent(input.issues,
                        SelectionOf(input.template).parentGroupingField)

RowsBefore(g) ==
    Len(Flatten([h \in 1..(g - 1) |->
            RowsOfGroup(ParentGroups[h].v, MappingOf(input.template))]))

RowsFrom(g) ==
    LET n == Len(RowsOfGroup(ParentGroups[g].v, MappingOf(input.template)))
    IN SubSeq(output[1].rows, RowsBefore(g) + 1, RowsBefore(g) + n)

Returned == Reported /\ ~ output[1].threw

\* fields.parent.fields.summary of an issue, as a plain read of the JSON.
ParentSummary(issue) ==
    Prop(Prop(Prop(Prop(issue, "fields"), "parent"), "fields"), "summary")

\* C16: with the default field mapping, the rows of a parent group whose
\* first child has a parent with summary S have the category S.
C16_DefaultCategoryIsParentSummary ==
    (Returned /\ MappingOf(input.template) = DefaultFieldMapping) =>
        \A g \in 1..Len(ParentGroups) :
            LET summary == ParentSummary(ParentGroups[g].v[1]) IN
            summary.t = "string" =>
                \A i \in 1..Len(RowsFrom(g)) :
                    RowsFrom(g)[i].category = summary


----------------------------------------------------------------------------
(* Legacy authentication middleware *)

\* String.prototype.trim on a string.
RECURSIVE Trimmed(_)
Trimmed(s) ==
    LET space == {" ", "\t", "\n", "\r"} IN
    IF Len(s) = 0 THEN s
    ELSE IF SubSeq(s, 1, 1) \in space THEN Trimmed(SubSeq(s, 2, Len(s)))
    ELSE IF SubSeq(s, Len(s), Len(s)) \in space
    THEN Trimmed(SubSeq(s, 1, Len(s) - 1))
    ELSE s

\* The value of a character of the base64 alphabet, -1 for any other.
Base64Value(c) ==
    LET alphabet ==
            "ABCDEFGHIJKLMNOPQRSTUVWXYZabcdefghijklmnopqrstuvwxyz0123456789+/"
        at == { i \in 1..Len(alphabet) : SubSeq(alphabet, i, i) = c }
    IN IF c = "-" THEN 62
       ELSE IF c = "_" THEN 63
       ELSE IF at = {} THEN -1
       ELSE (CHOOSE i \in at : TRUE) - 1

\* The sextets of an encoded string: decoding ends at the padding and
\* skips what is not of the alphabet.
RECURSIVE Sextets(_)
Sextets(encoded) ==
    IF Len(encoded) = 0 \/ SubSeq(encoded, 1, 1) = "=" THEN <<>>
    ELSE LET v == Base64Value(SubSeq(encoded, 1, 1))
             rest == Sextets(SubSeq(encoded, 2, Len(encoded)))
         IN IF v < 0 THEN rest ELSE <<v>> \o rest

\* The bytes of a sequence of sextets, three of every four.
RECURSIVE Octets(_)
Octets(sextets) ==
    IF Len(sextets) < 2 THEN <<>>
    ELSE IF Len(sextets) = 2
    THEN << sextets[1] * 4 + sextets[2] \div 16 >>
    ELSE IF Len(sextets) = 3
    THEN << sextets[1] * 4 + sextets[2] \div 16,
            (sextets[2] % 16) * 16 + sextets[3] \div 4 >>
    ELSE << sextets[1] * 4 + sextets[2] \div 16,
            (sextets[2] % 16) * 16 + sextets[3] \div 4,
            (sextets[3] % 4) * 64 + sextets[4] >>
         \o Octets(SubSeq(sextets, 5, Len(sextets)))

\* The text of a sequence of bytes: the printable characters of ASCII; the
\* grave accent, which a string here cannot hold, and the bytes that are
\* not printable ASCII are written "?".
RECURSIVE Utf8(_)
Utf8(octets) ==
    LET upto95 == " !\"#$%&'()*+,-./0123456789:;<=>?@ABCDEFGHIJKLMNOPQRSTUVWXYZ[\\]^_"
        from97 == "abcdefghijklmnopqrstuvwxyz{|}~"
    IN IF octets = <<>> THEN ""
       ELSE (IF octets[1] \in 32..95
             THEN SubSeq(upto95, octets[1] - 31, octets[1] - 31)
             ELSE IF octets[1] \in 97..126
             THEN SubSeq(from97, octets[1] - 96, octets[1] - 96)
             ELSE "?")
            \o Utf8(Tail(octets))

\* Buffer.from(encoded, 'base64').toString('utf-8')
Base64Decode(encoded) == Utf8(Octets(Sextets(encoded)))

\* What the middleware did with a request: the credentials it attached
\* (<<>> for none), whether it called next, and the status of the response
\* it sent (<<>> for none).
Passed(credentials) ==
    [credentials |-> credentials, next |-> TRUE, status |-> <<>>]

\* The header credentials of a request, <<>> when the header gives none.
HeaderCredentials(req) ==
    LET authHeader == Prop(Prop(req, "headers"), "authorization") IN
    IF Truthy(authHeader) /\ startsWith(authHeader.s, "Bearer ")
    THEN LET encoded == SubSeq(authHeader.s, 8, Len(authHeader.s))
             decoded == Base64Decode(encoded)
             parts == split(decoded, ":")
             email == parts[1]
             apiToken == IF Len(parts) > 1 THEN Str(parts[2]) ELSE Undefined
             baseUrl == Prop(Prop(req, "headers"), "x-jira-base-url")
         IN IF email # "" /\ Truthy(apiToken)
            THEN << [email |-> Str(Trimmed(email)),
                     apiToken |-> Str(Trimmed(apiToken.s)),
                     baseUrl |-> IF Truthy(baseUrl) THEN baseUrl
                                 ELSE Undefined] >>
            ELSE <<>>
    ELSE <<>>

\* The credentials of the body or of the query of a request.
FieldCredentials(from) ==
    IF Truthy(from) /\ Truthy(Prop(from, "jiraEmail"))
       /\ Truthy(Prop(from, "jiraApiToken"))
    THEN << [email |-> Prop(from, "jiraEmail"),
             apiToken |-> Prop(from, "jiraApiToken"),
             baseUrl |-> Undefined] >>
    ELSE <<>>

extractJiraCredentials(req) ==
    IF HeaderCredentials(req) # <<>> THEN Passed(HeaderCredentials(req))
    ELSE IF FieldCredentials(Prop(req, "body")) # <<>>
    THEN Passed(FieldCredentials(Prop(req, "body")))
    ELSE IF FieldCredentials(Prop(req, "query")) # <<>>
    THEN Passed(FieldCredentials(Prop(req, "query")))
    ELSE Passed(<<>>)

----------------------------------------------------------------------------
(* Extracting the credentials of a request *)

\* The Authorization headers of the requests: none, another scheme, an
\* empty token, and the encodings of "ann@x.io:tok", of an email alone, of
\* a token alone, of an email and a colon, of " ann@x.io : tok " and of
\* "a@x.io:to:k".
AuthorizationHeaders ==
    { <<>>, <<"Basic YW5uQHguaW86dG9r">>, <<"Bearer ">>,
      <<"Bearer YW5uQHguaW86dG9r">>,
      <<"Bearer YW5uQHguaW8=">>,
      <<"Bearer OnRvaw==">>,
      <<"Bearer YW5uQHguaW86">>,
      <<"Bearer IGFubkB4LmlvIDogdG9rIA==">>,
      <<"Bearer YUB4LmlvOnRvOms=">> }

BaseUrls == { <<>>, <<"https://x.atlassian.net">> }

\* jiraEmail and jiraApiToken of a body or of a query: absent, empty, given.
FieldsGiven ==
    { Obj((IF e = <<>> THEN <<>> ELSE <<Entry("jiraEmail", Str(e[1]))>>)
          \o (IF k = <<>> THEN <<>>
              ELSE <<Entry("jiraApiToken", Str(k[1]))>>)) :
        e \in { <<>>, <<"">>, <<"bob@x.io">> },
        k \in { <<>>, <<"">>, <<"key">> } }

Requests ==
    { Obj(<<Entry("headers",
                  Obj((IF a = <<>> THEN <<>>
                       ELSE <<Entry("authorization", Str(a[1]))>>)
                      \o (IF u = <<>> THEN <<>>
                          ELSE <<Entry("x-jira-base-url", Str(u[1]))>>))),
            Entry("query", q)>>
          \o (IF b = <<>> THEN <<>> ELSE <<Entry("body", b[1])>>)) :
        a \in AuthorizationHeaders, u \in BaseUrls, q \in FieldsGiven,
        b \in { <<>> } \cup { <<f>> : f \in FieldsGiven } }

InitAuth ==
    /\ StoreAtRest
    /\ input \in Requests
    /\ output = <<>>

\* extractJiraCredentials(req, res, next)
ExtractJiraCredentials ==
    /\ output = <<>>
    /\ output' = << extractJiraCredentials(input) >>
    /\ UNCHANGED <<input, reportTemplates, storeVars>>

NextAuth == ExtractJiraCredentials

SpecAuth == InitAuth /\ [][NextAuth]_vars

----------------------------------------------------------------------------
(* Properties of the authentication middleware *)

\* C17: a request in which no credentials are found is answered 401 and is
\* not passed on to the next handler.
C17_RejectsWithoutCredentials ==
    (output # <<>> /\ output[1].credentials = <<>>) =>
        (output[1].status = <<401>> /\ ~ output[1].next)


\* The grouping of the children as the report is to show it, read off the
\* input: the key of a child, the children that are the first of their
\* key, and the children of the n-th key.
GroupKeyOf(issue) ==
    LET value == extractFieldValue(
                     issue, SelectionOf(input.template).parentGroupingField)
    IN IF value = Null THEN Str("UNPARENTED") ELSE value

FirstSeen ==
    SelectSeq([i \in 1..Len(input.issues) |-> i],
              LAMBDA i : \A j \in 1..(i - 1) :
                  GroupKeyOf(input.issues[j]) # GroupKeyOf(input.issues[i]))

Group(n) ==
    SelectSeq(input.issues,
              LAMBDA issue :
                  GroupKeyOf(issue) = GroupKeyOf(input.issues[FirstSeen[n]]))

\* The initiatives of the children of the n-th group.
SubKeys(n) ==
    UNION { { FieldKeys(Group(n)[i],
                        MappingOf(input.template).initiativeField,
                        MappingOf(input.template).multiValueHandling,
                        MappingOf(input.template).multiValueSeparator)[j] :
                j \in 1..Len(FieldKeys(
                        Group(n)[i],
                        MappingOf(input.template).initiativeField,
                        MappingOf(input.template).multiValueHandling,
                        MappingOf(input.template).multiValueSeparator)) } :
            i \in 1..Len(Group(n)) }

\* The rows of the n-th group: as many as it has initiatives, after the
\* rows of the groups before it.
RECURSIVE RowOffset(_)
RowOffset(n) ==
    IF n <= 1 THEN 0 ELSE RowOffset(n - 1) + Cardinality(SubKeys(n - 1))

Slice(n) ==
    SubSeq(output[1].rows, RowOffset(n) + 1, RowOffset(n + 1))

\* C18 as stated: no two rows of a report have the same category and the
\* same initiative.
C18_NoTwoRowsOfOnePair ==
    Returned =>
        \A i, j \in 1..Len(output[1].rows) :
            (/\ output[1].rows[i].category = output[1].rows[j].category
             /\ output[1].rows[i].initiative = output[1].rows[j].initiative)
            => i = j

\* C18, amended: a report has one row for each initiative of each parent
\* group, so no two rows of one parent group have the same initiative.
C18_OneRowPerGroupAndInitiative ==
    Returned =>
        /\ Len(output[1].rows) = RowOffset(Len(FirstSeen) + 1)
        /\ \A n \in 1..Len(FirstSeen) :
               /\ { Slice(n)[i].initiative : i \in 1..Len(Slice(n)) }
                      = SubKeys(n)
               /\ \A i, j \in 1..Len(Slice(n)) :
                      Slice(n)[i].initiative = Slice(n)[j].initiative
                      => i = j

\* A report with a parent group of two rows, and with two rows of one
\* category and one initiative.
C18_Witness ==
    /\ Returned
    /\ \E n \in 1..Len(FirstSeen) : Cardinality(SubKeys(n)) >= 2
    /\ \E i, j \in 1..Len(output[1].rows) :
           /\ i # j
           /\ output[1].rows[i].category = output[1].rows[j].category
           /\ output[1].rows[i].initiative = output[1].rows[j].initiative

ParentCategory(issue) ==
    LET parent == Prop(Prop(issue, "fields"), "parent")
        resolved ==
            extractFieldValue(
                Obj(<<Entry("key", Prop(parent, "key")),
                      Entry("fields", IF Prop(parent, "fields").t = "object"
                                      THEN Prop(parent, "fields")
                                      ELSE Obj(<<>>))>>),
                MappingOf(input.template).categoryField)
    IN IF parent.t # "object" \/ resolved = Null
          \/ resolved = Arr(<<>>)
       THEN Str("Uncategorized")
       ELSE formatFieldValue(resolved, "join", ", ", "Uncategorized")

\* C20: the rows of a parent group all have the category of the parent of
\* its first child, "Uncategorized" when that child names no parent or the
\* category field resolves to nothing in it.
C20_CategoryOfFirstChild ==
    Returned =>
        /\ Len(output[1].rows) = RowOffset(Len(FirstSeen) + 1)
        /\ \A n \in 1..Len(FirstSeen) :
               \A i \in 1..Len(Slice(n)) :
                   Slice(n)[i].category = ParentCategory(Group(n)[1])

\* A group of two children of different parents, with rows of the category
\* of the first.
C20_Witness ==
    /\ Returned
    /\ \E n \in 1..Len(FirstSeen) :
           /\ Len(Group(n)) = 2
           /\ ParentCategory(Group(n)[1]) = Str("P-1")
           /\ ParentCategory(Group(n)[2]) = Str("P-2")
           /\ Len(Slice(n)) >= 1
           /\ Slice(n)[1].category = Str("P-1")


----------------------------------------------------------------------------
(* Properties of the sub-groups and of the items *)

\* The strings of a list with a separator between them.
RECURSIVE Joined(_, _)
Joined(strings, separator) ==
    IF strings = <<>> THEN ""
    ELSE IF Len(strings) = 1 THEN strings[1].s
    ELSE strings[1].s \o separator \o Joined(Tail(strings), separator)

\* The value of the initiative field of a child: a list of strings, a
\* string, or nothing.
InitiativeValue(issue) ==
    extractFieldValue(issue, MappingOf(input.template).initiativeField)

\* The sub-groups a child is to be placed in, read off its initiative value.
Placements(issue) ==
    LET value == InitiativeValue(issue)
        handling == MappingOf(input.template).multiValueHandling
    IN IF value = Null \/ value = Arr(<<>>) THEN << Str("No value") >>
       ELSE IF value.t # "array" THEN << value >>
       ELSE IF handling = "all" THEN value.a
       ELSE IF handling = "first" THEN << value.a[1] >>
       ELSE << Str(Joined(value.a,
                          MappingOf(input.template).multiValueSeparator)) >>

\* The placements of the children of the n-th parent group, one after the
\* other, each a pair of a sub-group and a child.
PlacementsOf(n) ==
    Flatten([i \in 1..Len(Group(n)) |->
        [j \in 1..Len(Placements(Group(n)[i])) |->
            << Placements(Group(n)[i])[j], Group(n)[i] >>]])

\* The sub-groups groupIssuesByField makes of the n-th parent group.
SubGroups(n) ==
    groupIssuesByField(Group(n),
                       MappingOf(input.template).initiativeField,
                       MappingOf(input.template).multiValueHandling,
                       MappingOf(input.template).multiValueSeparator)

\* C21: the sub-groups of a parent group are the placements of its
\* children: one for each element of a non-empty array in "all" mode, one
\* in "join" and "first" mode, "No value" for a missing value or an empty
\* array; sub-groups are in the order they are first seen, and each holds
\* its children in the order they were placed.
C21_SubGroupsByInitiative ==
    Reported =>
        \A n \in 1..Len(FirstSeen) :
            LET placed == PlacementsOf(n)
                first == SelectSeq([p \in 1..Len(placed) |-> p],
                             LAMBDA p : \A q \in 1..(p - 1) :
                                 placed[q][1] # placed[p][1])
            IN /\ Len(SubGroups(n)) = Len(first)
               /\ \A g \in 1..Len(first) :
                      /\ SubGroups(n)[g].k = placed[first[g]][1]
                      /\ LET of == SelectSeq(placed,
                                       LAMBDA p : p[1] = placed[first[g]][1])
                         IN SubGroups(n)[g].v
                                = [m \in 1..Len(of) |-> of[m][2]]

\* A parent group of two children in "all" mode, the first labelled Alpha
\* and Beta, the second without labels: sub-groups Alpha, Beta, No value.
C21_Witness ==
    /\ Returned
    /\ MappingOf(input.template).multiValueHandling = "all"
    /\ \E n \in 1..Len(FirstSeen) :
           /\ Len(Group(n)) = 2
           /\ InitiativeValue(Group(n)[1]) = Arr(<<Str("Alpha"), Str("Beta")>>)
           /\ InitiativeValue(Group(n)[2]) = Null
           /\ [g \in 1..Len(SubGroups(n)) |-> SubGroups(n)[g].k]
                  = << Str("Alpha"), Str("Beta"), Str("No value") >>
           /\ [i \in 1..Len(Slice(n)) |-> Slice(n)[i].initiative]
                  = << Str("Alpha"), Str("Beta"), Str("No value") >>


\* The item a child is listed as: the value of the item field, a list
\* joined with ", ", and the key of the child when there is no value.
ItemExpected(issue) ==
    LET value == extractFieldValue(
                     issue, MappingOf(input.template).issueItemField)
    IN IF value = Null \/ value = Arr(<<>>) THEN Prop(issue, "key")
       ELSE IF value.t = "array" THEN Str(Joined(value.a, ", "))
       ELSE value

\* The items of the members of a sub-group that are of one section.
ItemsExpected(members, section) ==
    LET of == SelectSeq(members,
                  LAMBDA issue :
                      categorizeIssue(Prop(Prop(Prop(issue, "fields"),
                                                "status"), "name"))
                          = section)
    IN [m \in 1..Len(of) |-> ItemExpected(of[m])]

\* C22: the four sequences of a row hold the items of the members of its
\* sub-group, each member in the one sequence of its section, in the order
\* of the members.
C22_ItemsBySection ==
    Returned =>
        \A n \in 1..Len(FirstSeen) :
            /\ Len(Slice(n)) = Len(SubGroups(n))
            /\ \A g \in 1..Len(Slice(n)) :
                   LET row == Slice(n)[g]
                       members == SubGroups(n)[g].v
                   IN /\ row.lastWeek = ItemsExpected(members, LAST_WEEK)
                      /\ row.currentWeek
                             = ItemsExpected(members, CURRENT_WEEK)
                      /\ row.nextWeek = ItemsExpected(members, NEXT_WEEK)
                      /\ row.later = ItemsExpected(members, LATER)
                      /\ Len(row.lastWeek) + Len(row.currentWeek)
                             + Len(row.nextWeek) + Len(row.later)
                             = Len(members)

\* A row of two members, the first in progress and the second blocked,
\* listed by their labels.
C22_Witness ==
    /\ Returned
    /\ MappingOf(input.template).issueItemField = "fields.labels"
    /\ Len(output[1].rows) = 1
    /\ output[1].rows[1].lastWeek = <<>>
    /\ output[1].rows[1].currentWeek = << Str("Alpha") >>
    /\ output[1].rows[1].nextWeek = <<>>
    /\ output[1].rows[1].later = << Str("Alpha") >>


\* The children of the n-th parent group that are placed in a sub-group.
PlacedIn(n, initiative) ==
    { i \in 1..Len(Group(n)) :
        \E j \in 1..Len(Placements(Group(n)[i])) :
            Placements(Group(n)[i])[j] = initiative }

\* C23: every child is in a row, and a row has one item for each child of
\* its sub-group, none of them twice.
C23_EachChildOncePerRow ==
    Returned =>
        \A n \in 1..Len(FirstSeen) :
            /\ \A i \in 1..Len(Group(n)) :
                   \E g \in 1..Len(Slice(n)) :
                       i \in PlacedIn(n, Slice(n)[g].initiative)
            /\ \A g \in 1..Len(Slice(n)) :
                   Len(Slice(n)[g].lastWeek) + Len(Slice(n)[g].currentWeek)
                       + Len(Slice(n)[g].nextWeek) + Len(Slice(n)[g].later)
                   = Cardinality(PlacedIn(n, Slice(n)[g].initiative))


----------------------------------------------------------------------------
(* Properties of the parent figures *)

\* The first of the two fields that the parent has, 0 when it has neither.
FirstPresent(aggregate, own) ==
    LET fields == Prop(input.parentIssue, "fields") IN
    IF Prop(fields, aggregate) # Undefined THEN Prop(fields, aggregate)
    ELSE IF Prop(fields, own) # Undefined THEN Prop(fields, own)
    ELSE Num(0)

\* C26: the parent time spent is aggregatetimespent when the parent has
\* it, 0 included, else timespent, else 0; the parent estimate likewise
\* from aggregatetimeestimate and timeestimate.
C26_ParentFromAggregateWhenPresent ==
    Sheeted =>
        /\ output[1].parent.timespent
               = FirstPresent("aggregatetimespent", "timespent")
        /\ output[1].parent.timeestimate
               = FirstPresent("aggregatetimeestimate", "timeestimate")


----------------------------------------------------------------------------
(* formatManDays *)

\* Math.floor of the non-negative quotient n / d.
RoundDown(n, d) == n \div d

\* Math.round of the non-negative quotient n / d.
Round(n, d) == (2 * n + d) \div (2 * d)

\* formatManDays(manDays) of PptExportService, of WordExportService and of
\* TimesheetCard, the three alike.  A number of man-days is held in
\* hundredths, as the timesheet makes them.
formatManDays(manDays) ==
    LET validManDays == IF IsNullish(manDays) THEN Num(0) ELSE manDays IN
    IF validManDays = NaN THEN "0d"
    ELSE IF validManDays = Num(0) THEN "0d"
    ELSE LET isNegative == validManDays.n < 0
             absManDays == IF isNegative THEN 0 - validManDays.n
                           ELSE validManDays.n
             sign == IF isNegative THEN "-" ELSE ""
             wholeDays == absManDays \div 100
             remainingDays == absManDays - 100 * wholeDays
             hours == Round(8 * remainingDays, 100)
         IN IF absManDays < 100
            THEN sign \o NumberToString(Round(8 * absManDays, 100)) \o "h"
            ELSE IF hours = 0
            THEN sign \o NumberToString(wholeDays) \o "d"
            ELSE sign \o NumberToString(wholeDays) \o "d "
                      \o NumberToString(hours) \o "h"

----------------------------------------------------------------------------
(* Formatting man-days *)

\* Largest number of man-days formatted, in hundredths.
MaxHundredths == 250

\* The man-days of a timesheet, and what a summary without them holds.
ManDayValues ==
    { Undefined, Null, NaN }
    \cup { Num(h) : h \in (0 - MaxHundredths)..MaxHundredths }

InitManDays ==
    /\ StoreAtRest
    /\ input \in ManDayValues
    /\ output = <<>>

\* formatManDays(timesheet.remainingManDays) and the like
FormatManDays ==
    /\ output = <<>>
    /\ output' = << formatManDays(input) >>
    /\ UNCHANGED <<input, reportTemplates, storeVars>>

SpecManDays == InitManDays /\ [][FormatManDays]_vars

----------------------------------------------------------------------------
(* Properties of formatManDays *)

Formatted == output # <<>>

\* The size of a number of man-days, in hundredths, and in days and eighths.
Size == IF input.n < 0 THEN 0 - input.n ELSE input.n

Days == Size \div 100

\* The hours nearest to the part of a day: the h with
\* |8 * part - 100 * h| smallest.
Hours(part) ==
    CHOOSE h \in 0..8 :
        \A k \in 0..8 :
            Distance(8 * part, 100 * h) <= Distance(8 * part, 100 * k)

\* C27: "0d" for 0; the rounded hours and "h" below a day; from a day on
\* the whole days and "d", then a space, the rounded hours of the rest and
\* "h" unless they round to zero; "-" in front exactly for a negative.
C27_FormatManDays ==
    (Formatted /\ input.t = "number") =>
        LET sign == IF input.n < 0 THEN "-" ELSE "" IN
        /\ input.n = 0 => output[1] = "0d"
        /\ (0 < Size /\ Size < 100) =>
               output[1] = sign \o NumberToString(Hours(Size)) \o "h"
        /\ (Size >= 100 /\ Hours(Size - 100 * Days) = 0) =>
               output[1] = sign \o NumberToString(Days) \o "d"
        /\ (Size >= 100 /\ Hours(Size - 100 * Days) # 0) =>
               output[1] = sign \o NumberToString(Days) \o "d "
                                \o NumberToString(Hours(Size - 100 * Days))
                                \o "h"
        /\ input = Num(50) => output[1] = "4h"
        /\ input = Num(150) => output[1] = "1d 4h"
        /\ input = Num(-25) => output[1] = "-2h"

\* One and a half days less than nothing: "-1d 4h".
C27_Witness ==
    /\ Formatted
    /\ input = Num(-150)
    /\ output[1] = "-1d 4h"

\* A string ends in another.
EndsIn(string, suffix) ==
    /\ Len(string) >= Len(suffix)
    /\ SubSeq(string, Len(string) - Len(suffix) + 1, Len(string)) = suffix

\* C28: for a number of man-days that is not 0, the hours printed are 1 to
\* 7: never "0h", "-0h", "8h" or days and "8h".
C28_HoursFromOneToSeven ==
    (Formatted /\ input.t = "number" /\ input.n # 0) =>
        /\ ~ EndsIn(output[1], "0h")
        /\ ~ EndsIn(output[1], "8h")


----------------------------------------------------------------------------
(* Formatting a value *)

\* The elements of a multi-value field: strings, one of them the dash, a
\* user, a number, a flag, and nothing.
Elements ==
    { Str("Alpha"), Str("Beta"), Str("-"), Null, Num(3), Bool(TRUE),
      Obj(<<Entry("name", Str("Ann"))>>) }

\* The values formatted: the arrays of up to two elements, and strings that
\* begin like a day, among them days and a time that exist and days that
\* do not.
FormatValues ==
    { Arr(<<>>) }
    \cup { Arr(<<e>>) : e \in Elements }
    \cup { Arr(<<e, f>>) : e, f \in Elements }
    \cup { Str(s) : s \in { "2024-01-15", "2024-01-15T10:30:00.000+0000",
                            "2024-13-45", "2024-01-32", "0000-00-00" } }

InitFormat ==
    /\ StoreAtRest
    /\ input \in [value : FormatValues,
                  multiValueHandling : {"join", "first", "all"},
                  separator : {", ", "/"},
                  fallback : {"-", "No value"}]
    /\ output = <<>>

\* formatFieldValue(value, { multiValueHandling, separator, fallback })
FormatFieldValue ==
    /\ output = <<>>
    /\ output' = << formatFieldValue(input.value, input.multiValueHandling,
                                     input.separator, input.fallback) >>
    /\ UNCHANGED <<input, reportTemplates, storeVars>>

SpecFormat == InitFormat /\ [][FormatFieldValue]_vars

----------------------------------------------------------------------------
(* Properties of formatFieldValue *)

\* The elements of the array, each formatted on its own.
FormattedElements ==
    [i \in 1..Len(input.value.a) |->
        formatFieldValue(input.value.a[i], "join", ", ", input.fallback)]

\* C29: an empty array formats to the fallback in every mode; another array
\* to itself in "all" mode, to its formatted element 0 in "first" mode, and
\* in "join" mode to its formatted elements other than the fallback, in
\* order, with the separator between them.
C29_FormatArray ==
    (output # <<>> /\ input.value.t = "array") =>
        /\ input.value.a = <<>> => output[1] = Str(input.fallback)
        /\ (input.value.a # <<>> /\ input.multiValueHandling = "all") =>
               output[1] = input.value
        /\ (input.value.a # <<>> /\ input.multiValueHandling = "first") =>
               output[1] = FormattedElements[1]
        /\ (input.value.a # <<>> /\ input.multiValueHandling = "join") =>
               output[1]
                   = Str(Joined(SelectSeq(FormattedElements,
                                    LAMBDA e : e # Str(input.fallback)),
                                input.separator))

\* ["-", "Beta"] and [null, "Beta"] joined with "/": "Beta" when the
\* fallback is "-", "-/Beta" and "Beta" when it is "No value".
C29_Witness ==
    /\ output # <<>>
    /\ input.multiValueHandling = "join"
    /\ input.separator = "/"
    /\ input.fallback = "No value"
    /\ input.value = Arr(<<Str("-"), Str("Beta")>>)
    /\ output[1] = Str("-/Beta")

\* C30: a string that begins like a day and is no date is formatted to
\* itself.
C30_UnparseableDateUnchanged ==
    (/\ output # <<>>
     /\ input.value.t = "string"
     /\ IsoDatePrefix(input.value.s)
     /\ ~ ParsesAsDate(input.value.s)) =>
        output[1] = input.value


----------------------------------------------------------------------------
(* Properties of the store when a write fails, and of two stores *)

\* The operations that change the Map.
Mutating ==
    { "getDefaultTemplate", "createTemplate", "updateTemplate",
      "deleteTemplate", "cloneTemplate" }

\* C25: a mutating operation whose write fails leaves the Map as it was
\* before the operation.
C25_FailedWriteLeavesMap ==
    [][ (last'.op \in Mutating /\ last'.write = "failed")
            => templates' = templates ]_vars


----------------------------------------------------------------------------
(* Two services over one file *)

\* Number of defaults the report routes may materialize, after the saving
\* operations of the template routes or before them.
MaxReportOps == 1

\* Both route modules construct a TemplateService over the same data
\* directory when the server starts: the first writes the empty file when
\* there is none, and both hold what the file holds.
InitTwo ==
    /\ \E f \in {NoFile} \cup StoredFiles : \E writeOk \in BOOLEAN :
          /\ templates = IF f.exists THEN LoadedMap(f) ELSE <<>>
          /\ file = IF f.exists THEN f ELSE WrittenFile(<<>>, f, writeOk)
          /\ uuids = Len(f.data)
          /\ clock = LatestChange(f.data)
    /\ reportTemplates = templates
    /\ ops = 0
    /\ last = Idle
    /\ input = <<>>
    /\ output = <<>>

\* templateService.getTemplate(templateId, userId) of the report routes
ReportGetTemplate(templateId, userId) ==
    /\ last = Idle
    /\ LET t == getTemplate(reportTemplates, templateId, userId) IN
       last' = Call("reportGetTemplate", templateId, userId,
                    IF t = <<>> THEN "null" ELSE "ok", t)
    /\ UNCHANGED <<templates, file, uuids, clock, ops, callVars>>

\* templateService.getDefaultTemplate(userId) of the report routes: the
\* default is looked up in the Map of this service, and when it is not
\* there it is made and the Map of this service is written to the file.
ReportGetDefaultTemplate(userId) ==
    /\ last = Idle
    /\ LET found == FindDefault(reportTemplates, userId)
           call == Call("reportGetDefaultTemplate", 0, userId, "ok", found)
       IN
       IF found # <<>>
       THEN /\ last' = call
            /\ UNCHANGED <<templates, file, uuids, clock, ops, callVars>>
       ELSE \E now \in Now, writeOk \in BOOLEAN :
            LET t == NewDefaultTemplate(uuids + 1, userId, now) IN
            /\ ops < MaxOps + MaxReportOps
            /\ reportTemplates' = SavedMap(reportTemplates, t, now)
            /\ file' = WrittenFile(reportTemplates', file, writeOk)
            /\ uuids' = uuids + 1
            /\ clock' = now
            /\ ops' = ops + 1
            /\ last' = IF writeOk
                       THEN [call EXCEPT
                                !.write = "ok",
                                !.ret = <<Stamped(reportTemplates, t, now)>>]
                       ELSE [call EXCEPT !.write = "failed",
                                         !.status = "throw"]
            /\ UNCHANGED <<templates, input, output>>

NextTwo ==
    \/ \E u \in Users, inc \in BOOLEAN : GetTemplatesForUser(u, inc)
    \/ \E id \in RequestIds, u \in Users : GetTemplate(id, u)
    \/ \E u \in Users : GetDefaultTemplate(u)
    \/ \E u \in Users, n \in Names, sh \in BOOLEAN : CreateTemplate(u, n, sh)
    \/ \E id \in RequestIds, u \in Users, upd \in RequestUpdates :
          UpdateTemplate(id, u, upd)
    \/ \E id \in RequestIds, u \in Users : DeleteTemplate(id, u)
    \/ \E id \in RequestIds, u \in Users, n \in Names : CloneTemplate(id, u, n)
    \/ \E id \in RequestIds, u \in Users : ReportGetTemplate(id, u)
    \/ \E u \in Users : ReportGetDefaultTemplate(u)
    \/ Respond

SpecTwo == InitTwo /\ [][NextTwo]_vars

\* The ids of the templates a file holds.
IdsIn(f) == { f.data[i].id : i \in 1..Len(f.data) }

\* C24: whichever service writes the file, the file keeps every template it
\* held but the one deleted; and getTemplate of either service returns a
\* template that the file holds to its owner.
C24_TwoServicesOneFile ==
    [][ /\ last'.write = "ok" =>
               \A id \in IdsIn(file) :
                   (last'.op = "deleteTemplate" /\ last'.id = id)
                   \/ id \in IdsIn(file')
        /\ last'.op \in {"getTemplate", "reportGetTemplate"} =>
               \A i \in 1..Len(file.data) :
                   (file.data[i].id = last'.id
                    /\ IsOwner(file.data[i], last'.user))
                   => last'.status = "ok" ]_vars

====
